---- MODULE Spec2Model ----
(***************************************************************************)
(* A model of git-secret-scanner (python/gitsecret): the Scanner           *)
(* (scanner.py), the Pattern & Filter engine (config.py), the Analyzer     *)
(* (analyzer.py) and the Cleaner (cleaner.py).                             *)
(*                                                                         *)
(* Strings are sequences of one-character strings, so that slicing,        *)
(* concatenation, substring search and case folding are computed and not   *)
(* assumed.  Python's None is the model value None.                        *)
(*                                                                         *)
(* One run of the program executes one public operation; `op` names it and *)
(* `pc` is the position inside it.                                         *)
(***************************************************************************)
EXTENDS Integers, Sequences, FiniteSets, TLC

VARIABLES
    op,          \* the public operation this run executes
    pc,          \* position inside the operation
    caseSensitive, \* config.settings.case_sensitive (immutable after load)
    task,        \* Scanner: per keyword, the state of its history-mining task
    index,       \* Scanner: the shared index, a function on (file, key)
    histResult,  \* Scanner: scan_both's `result` (the history ScanResult)
    result,      \* Scanner: the ScanResult returned
    seen,        \* Scanner: the seen set of scan_stream / scan_current_stream
    seenOuter,   \* Scanner: the seen set of scan_both_stream
    tmpf,        \* Scanner: the lines of scan_both_stream's temp file
    outf,        \* Scanner: the lines of the JSONL output file
    log,         \* history variable: the events handed to merge or dedup, in order
    mv,          \* mask run: the value handed to the mask functions
    produced,    \* mask run: the masked values produced so far
    loadIn,      \* Cleaner loaders: the input file
    loaded,      \* Cleaner loaders: the LoadSecretsResult returned
    cl,          \* Cleaner.clean: opts, secrets, the local `tool`, the CleanResult
    repo,        \* Cleaner.clean: the repository (files, branches, temp files, history)
    cmds,        \* Cleaner.clean: the commands started and files written, in order
    probes,      \* Cleaner.clean: what the --version probes that ran ended with
    anIndex,     \* Analyzer: the index, in insertion order
    anTotal,     \* Analyzer: total_entries
    anRead,      \* history variable: the entries the Analyzer has read, in order
    analysis,    \* Analyzer: the Analysis returned
    exIn,        \* extraction run: the argument of the function applied
    exOut        \* extraction run: what it returned

scanVars == <<task, index, histResult, result, seen, seenOuter, tmpf, outf, log>>
maskVars == <<mv, produced>>
loadVars == <<loadIn, loaded>>
cleanVars == <<cl, repo, cmds, probes>>
anVars == <<anIndex, anTotal, anRead, analysis>>
exVars == <<exIn, exOut>>
otherVars == <<anVars, exVars>>
nonScanVars == <<maskVars, loadVars, cleanVars, otherVars>>
vars == <<op, pc, caseSensitive, scanVars, maskVars, loadVars, cleanVars, otherVars>>

None == <<"<None>">>

(***************************************************************************)
(* String helpers (Python str operations on sequences of characters).      *)
(***************************************************************************)
UpperChars == <<"A","B","C","D","E","F","G","H","I","J","K","L","M",
                "N","O","P","Q","R","S","T","U","V","W","X","Y","Z">>
LowerChars == <<"a","b","c","d","e","f","g","h","i","j","k","l","m",
                "n","o","p","q","r","s","t","u","v","w","x","y","z">>
DigitChars == <<"0","1","2","3","4","5","6","7","8","9">>

InSeq(c, s) == \E i \in 1..Len(s) : s[i] = c

\* str.lower() on one character
LowerChar(c) ==
    IF InSeq(c, UpperChars)
    THEN LowerChars[CHOOSE i \in 1..Len(UpperChars) : UpperChars[i] = c]
    ELSE c

\* str.lower()
Lower(s) == [i \in 1..Len(s) |-> LowerChar(s[i])]

\* s[:n]
Take(s, n) == SubSeq(s, 1, IF n < Len(s) THEN n ELSE Len(s))

\* s[-n:]
LastN(s, n) == SubSeq(s, IF Len(s) - n + 1 > 1 THEN Len(s) - n + 1 ELSE 1, Len(s))

\* c * n
Rep(c, n) == [i \in 1..n |-> c]

\* s.startswith(p)
StartsWith(s, p) == Len(p) <= Len(s) /\ SubSeq(s, 1, Len(p)) = p

\* s.endswith(p)
EndsWith(s, p) == Len(p) <= Len(s) /\ SubSeq(s, Len(s) - Len(p) + 1, Len(s)) = p

\* sub in s
Contains(s, sub) ==
    \E i \in 1..(Len(s) - Len(sub) + 1) : SubSeq(s, i, i + Len(sub) - 1) = sub

\* s.count(c) for a single character c
Count(s, c) == Cardinality({i \in 1..Len(s) : s[i] = c})

Min(a, b) == IF a < b THEN a ELSE b

(***************************************************************************)
(* Configuration (config.py).  The model runs under one loaded             *)
(* configuration: the default settings, and a part of the default lists.   *)
(***************************************************************************)
MinSecretLength == 3
MaxSecretLength == 500

\* config.extraction_patterns after get_compiled_patterns: the regex itself
\* lives in the input lines (what regex.search returns on them); the model
\* keeps each pattern's value_group
CompiledPatterns ==
    << [name |-> "key_equals_value", value_group |-> 2],
       [name |-> "json_quoted",      value_group |-> 2] >>

K_password == <<"p","a","s","s","w","o","r","d">>
K_api_key  == <<"a","p","i","_","k","e","y">>

\* config.keywords: ordered groups {name, patterns}
KeywordGroups ==
    << [name |-> "password", patterns |-> <<K_password>>],
       [name |-> "api_key",  patterns |-> <<K_api_key>>] >>

\* config.ignored_values
IgnoredValues ==
    << <<"N","/","A">>, <<"x","x","x">>, <<"$","{">> >>

\* config.exclude_binary_extensions
ExcludeBinaryExtensions == << <<".","p","n","g">> >>

\* config.ignored_files
IgnoredFiles ==
    << <<"*",".","m","d">>, <<"v","e","n","d","o","r","/","*","*">> >>

RECURSIVE Flatten(_)
Flatten(ss) == IF ss = <<>> THEN <<>> ELSE Head(ss) \o Flatten(Tail(ss))

\* Config.get_all_keywords
GetAllKeywords ==
    Flatten([i \in 1..Len(KeywordGroups) |-> KeywordGroups[i].patterns])

\* pattern.split("**")[0]
BeforeStars(p) ==
    LET i == CHOOSE j \in 1..(Len(p) - 1) :
                 /\ p[j] = "*" /\ p[j + 1] = "*"
                 /\ \A k \in 1..(j - 1) : ~(p[k] = "*" /\ p[k + 1] = "*")
    IN  SubSeq(p, 1, i - 1)

\* config.py _match_pattern
MatchPattern(pattern, file_path) ==
    IF Contains(pattern, <<"*","*">>)
    THEN StartsWith(file_path, BeforeStars(pattern))
    ELSE IF StartsWith(pattern, <<"*",".">>)
    THEN EndsWith(file_path, Tail(pattern))
    ELSE IF EndsWith(pattern, <<"/">>)
    THEN StartsWith(file_path, pattern)
    ELSE file_path = pattern

\* Config.should_ignore_file
ShouldIgnoreFile(file_path) ==
    \E i \in 1..Len(IgnoredFiles) : MatchPattern(IgnoredFiles[i], file_path)

IsIdentChar(c) ==
    InSeq(c, LowerChars) \/ InSeq(c, UpperChars) \/ InSeq(c, DigitChars) \/ c = "_"

CodeKeywords ==
    << <<"f","u","n","c"," ">>, <<"r","e","t","u","r","n"," ">>, <<"i","f"," ">>,
       <<"f","o","r"," ">>, <<"r","a","n","g","e"," ">>, <<"m","a","k","e","(">>,
       <<"a","p","p","e","n","d","(">>, <<"n","e","w","(">>, <<"l","e","n","(">> >>

\* config.py _looks_like_code
LooksLikeCode(value) ==
    \/ InSeq("(", value) /\ InSeq(")", value)
    \/ InSeq("[", value) /\ InSeq("]", value)
    \/ StartsWith(value, <<"{">>) \/ EndsWith(value, <<"}">>)
    \/ Count(value, ".") > 2
    \/ /\ Count(value, ".") = 1
       /\ LET d == CHOOSE i \in 1..Len(value) : value[i] = "."
          IN  /\ d > 1
              /\ d < Len(value)
              /\ InSeq(value[d + 1], UpperChars)
              /\ \A i \in 1..(d - 1) : IsIdentChar(value[i])
    \/ \E i \in 1..Len(CodeKeywords) : StartsWith(value, CodeKeywords[i])

UrlPrefixes ==
    << <<"h","t","t","p",":","/","/">>, <<"h","t","t","p","s",":","/","/">>,
       <<"f","t","p",":","/","/">>, <<"s","s","h",":","/","/">>,
       <<"f","i","l","e",":","/","/">>, <<"m","a","i","l","t","o",":">> >>

CommonKeywords ==
    << <<"p","a","s","s","w","o","r","d">>, <<"s","e","c","r","e","t">>,
       <<"t","o","k","e","n">>, <<"k","e","y">>,
       <<"c","r","e","d","e","n","t","i","a","l">>, <<"a","u","t","h">>,
       <<"p","a","s","s">>, <<"p","w","d">> >>

\* the ignored_values loop of should_ignore_value: the entry is lowered only
\* when case_sensitive is off, the value is always compared lowered
IgnoredValueHit(value, cs) ==
    \E i \in 1..Len(IgnoredValues) :
        Contains(Lower(value),
                 IF cs THEN IgnoredValues[i] ELSE Lower(IgnoredValues[i]))

\* Config.should_ignore_value
ShouldIgnoreValue(value, cs) ==
    \/ Len(value) < MinSecretLength
    \/ Len(value) > MaxSecretLength
    \/ LooksLikeCode(value)
    \/ \E i \in 1..Len(UrlPrefixes) : StartsWith(Lower(value), UrlPrefixes[i])
    \/ \E i \in 1..Len(CommonKeywords) : Lower(value) = CommonKeywords[i]
    \/ IgnoredValueHit(value, cs)


(***************************************************************************)
(* Inputs: what the history driver (git log -S<keyword> -p) can print, and  *)
(* what the working tree can hold.                                         *)
(***************************************************************************)
\* regex.search found nothing
NoMatch == << <<"<NoMatch>">> >>

HeaderLines ==
    { [text |-> <<"C","O","M","M","I","T","_","S","T","A","R","T","|","c","1","|","a","n","n","|","2","0","2","1">>,
       groups |-> <<NoMatch, NoMatch>>],
      [text |-> <<"C","O","M","M","I","T","_","S","T","A","R","T","|","c","2","|","b","o","b","|","2","0","2","2">>,
       groups |-> <<NoMatch, NoMatch>>] }

DiffLines ==
    { [text |-> <<"d","i","f","f"," ","-","-","g","i","t"," ","a","/",".","e","n","v"," ","b","/",".","e","n","v">>,
       groups |-> <<NoMatch, NoMatch>>] }

\* a diff header naming a file the configuration ignores
IgnoredDiffLines ==
    { [text |-> <<"d","i","f","f"," ","-","-","g","i","t"," ","a","/","R",".","m","d"," ","b","/","R",".","m","d">>,
       groups |-> <<NoMatch, NoMatch>>] }

ContentLines ==
    { [text |-> <<"+","p","a","s","s","w","o","r","d","=","h","u","n","t","e","r","2">>,
       groups |-> <<<<<<"p","a","s","s","w","o","r","d">>, <<"h","u","n","t","e","r","2">>>>, NoMatch>>],
      [text |-> <<"+","p","a","s","s","w","o","r","d","=","a","p","i","_","k","e","y","9">>,
       groups |-> <<<<<<"p","a","s","s","w","o","r","d">>, <<"a","p","i","_","k","e","y","9">>>>, NoMatch>>],
      [text |-> <<"+","a","p","i","_","k","e","y","=","N","/","A">>,
       groups |-> <<<<<<"a","p","i","_","k","e","y">>, <<"N","/","A">>>>, NoMatch>>],
      [text |-> <<"+","\"","a","p","i","_","k","e","y","\"",":"," ","\"","t","o","k","(",")","\"">>,
       groups |-> <<NoMatch, <<<<"a","p","i","_","k","e","y">>, <<"t","o","k","(",")">>>>>>],
      [text |-> <<"+","p","a","s","s","w","o","r","d","=","x","x","x"," ","\"","a","p","i","_","k","e","y","\"",":"," ","\"","h","u","n","t","e","r","2","\"">>,
       groups |-> <<<<<<"p","a","s","s","w","o","r","d">>, <<"x","x","x"," ","\"","a","p","i","_","k","e","y","\"",":"," ","\"","h","u","n","t","e","r","2","\"">>>>, <<<<"a","p","i","_","k","e","y">>, <<"h","u","n","t","e","r","2">>>>>>] }

\* content lines and diff headers with "|" in the value and in the path
PipeLines ==
    { [text |-> <<"+","p","a","s","s","w","o","r","d","=","h","u","n","t","e","r","2">>,
       groups |-> <<<<K_password, <<"h","u","n","t","e","r","2">>>>, NoMatch>>],
      [text |-> <<"+","p","a","s","s","w","o","r","d","=","x","|","p","a","s","s","w","o","r","d","|","h","u","n","t","e","r","2">>,
       groups |-> <<<<K_password, <<"x","|","p","a","s","s","w","o","r","d","|","h","u","n","t","e","r","2">>>>, NoMatch>>] }

PipeDiffLines ==
    { <<"d","i","f","f"," ","-","-","g","i","t"," ","a","/",".","e","n","v"," ","b","/",".","e","n","v">>,
      <<"d","i","f","f"," ","-","-","g","i","t"," ","a","/",".","e","n","v","|","p","a","s","s","w","o","r","d","|","x"," ","b","/",".","e","n","v","|","p","a","s","s","w","o","r","d","|","x">> }

DriverLines == HeaderLines \cup DiffLines \cup IgnoredDiffLines \cup ContentLines

\* the lines fed to the tasks of an operation: the concurrent scans are
\* explored on the smaller alphabet
LinesOf(o) ==
    IF o \in {"scan", "scanBoth"}
    THEN HeaderLines \cup DiffLines \cup ContentLines
    ELSE DriverLines

\* relative paths of the working tree
WalkFiles == { <<".","e","n","v">>, <<"R",".","m","d">>, <<"i",".","p","n","g">> }

\* datetime.now().isoformat()
NowDates == { <<"2","0","2","3">>, <<"2","0","2","4">> }

(***************************************************************************)
(* Diff-stream parser and extraction (scanner.py).                         *)
(*                                                                         *)
(* An input line is [text, groups]: its text, and for each compiled        *)
(* pattern what regex.search(content) returns on it: NoMatch or the        *)
(* tuple match.groups().                                                   *)
(***************************************************************************)
\* index of the first "|" of s at or after position i, 0 when there is none
FirstPipe(s, i) ==
    IF \E j \in i..Len(s) : s[j] = "|"
    THEN CHOOSE j \in i..Len(s) : s[j] = "|" /\ \A k \in i..(j - 1) : s[k] # "|"
    ELSE 0

\* line.split("|", 3)
RECURSIVE SplitPipe(_, _)
SplitPipe(s, maxsplit) ==
    LET j == FirstPipe(s, 1)
    IN  IF maxsplit = 0 \/ j = 0
        THEN <<s>>
        ELSE <<SubSeq(s, 1, j - 1)>> \o SplitPipe(SubSeq(s, j + 1, Len(s)), maxsplit - 1)

\* re.search(r' b/(.+)$', line): group 1 of the leftmost match, None without one
DiffFile(text) ==
    LET hits == {i \in 1..(Len(text) - 3) : SubSeq(text, i, i + 2) = <<" ","b","/">>}
    IN  IF hits = {} THEN None
        ELSE LET i == CHOOSE h \in hits : \A g \in hits : h <= g
             IN  SubSeq(text, i + 3, Len(text))

\* Scanner.extract_key_value from pattern i on: [found, key, value]
RECURSIVE ExtractFrom(_, _, _)
ExtractFrom(groups, i, cs) ==
    IF i > Len(CompiledPatterns)
    THEN [found |-> FALSE, key |-> None, value |-> None]
    ELSE LET g  == groups[i]
             vg == CompiledPatterns[i].value_group
         IN  IF g # NoMatch /\ Len(g) >= vg /\ vg - 1 < Len(g)
             THEN IF ShouldIgnoreValue(g[vg], cs)
                  THEN ExtractFrom(groups, i + 1, cs)
                  ELSE [found |-> TRUE, key |-> g[1], value |-> g[vg]]
             ELSE ExtractFrom(groups, i + 1, cs)

\* the same loop without the should_ignore_value test
RECURSIVE ExtractUnfiltered(_, _, _)
ExtractUnfiltered(groups, i, cs) ==
    IF i > Len(CompiledPatterns)
    THEN [found |-> FALSE, key |-> None, value |-> None]
    ELSE LET g  == groups[i]
             vg == CompiledPatterns[i].value_group
         IN  IF g # NoMatch /\ Len(g) >= vg /\ vg - 1 < Len(g)
             THEN [found |-> TRUE, key |-> g[1], value |-> g[vg]]
             ELSE ExtractUnfiltered(groups, i + 1, cs)

ExtractKeyValueNoFilter(groups, cs) == ExtractUnfiltered(groups, 1, cs)

\* a loop that gives up at the first matching pattern whose value is ignored
ExtractShortCircuit(groups, cs) ==
    LET hits == {i \in 1..Len(CompiledPatterns) : groups[i] # NoMatch}
    IN  IF hits = {} THEN [found |-> FALSE, key |-> None, value |-> None]
        ELSE LET i == CHOOSE h \in hits : \A g \in hits : h <= g
                 v == groups[i][CompiledPatterns[i].value_group]
             IN  IF ShouldIgnoreValue(v, cs)
                 THEN [found |-> FALSE, key |-> None, value |-> None]
                 ELSE [found |-> TRUE, key |-> groups[i][1], value |-> v]

\* what one pattern's regex.search(line).groups() can be on a line given to
\* extract_key_value alone
MatchGroups ==
    {NoMatch,
     <<K_password, <<"h","u","n","t","e","r","2">>>>, <<K_password, <<"N","/","A">>>>,
     <<K_api_key, <<"t","o","k","(",")">>>>, <<K_api_key, <<"h","u","n","t","e","r">>>>}

\* one groups() per compiled pattern
ExtractInputs == {<<g1, g2>> : g1 \in MatchGroups, g2 \in MatchGroups}

\* extract_key_value on every line of the input, computed once
ExtractTable ==
    [g \in {ln.groups : ln \in DriverLines \cup PipeLines} \cup ExtractInputs, cs \in BOOLEAN |->
        ExtractFrom(g, 1, cs)]

\* Scanner.extract_key_value
ExtractKeyValue(groups, cs) == ExtractTable[groups, cs]

\* `not x` on a str or None
Falsy(x) == x = None \/ x = <<>>

\* `if found and key and value`
Accepted(x) == x.found /\ x.key # <<>> /\ x.value # <<>>

\* the type loop: the name of the first keyword group listing the key
SecretType(key) ==
    LET hits == {i \in 1..Len(KeywordGroups) : InSeq(key, KeywordGroups[i].patterns)}
    IN  IF hits = {} THEN "unknown"
        ELSE KeywordGroups[CHOOSE h \in hits : \A g \in hits : h <= g].name

\* The per-line body of the `for line in process.stdout` loop, up to the point
\* where an event is handed to the merge (scan) or to the dedup (stream):
\* t is the task's current_* fields, kw its keyword.
\* Returns the new fields and the event, None when the line yields none.
ParseLine(t, kw, ln, cs) ==
    LET text == ln.text
        x == ExtractKeyValue(ln.groups, cs)
        none == [file |-> None, key |-> None, value |-> None,
                 commit |-> None, author |-> None, date |-> None]
        parts == SplitPipe(text, 3)
    IN
    IF StartsWith(text, <<"C","O","M","M","I","T","_","S","T","A","R","T","|">>)
    THEN [task  |-> IF Len(parts) >= 4
                    THEN [t EXCEPT !.commit = parts[2], !.author = parts[3],
                                   !.date = parts[4]]
                    ELSE t,
          hit |-> FALSE, event |-> none]
    ELSE IF StartsWith(text, <<"d","i","f","f"," ","-","-","g","i","t">>)
    THEN [task  |-> IF DiffFile(text) # None THEN [t EXCEPT !.file = DiffFile(text)] ELSE t,
          hit |-> FALSE, event |-> none]
    ELSE IF /\ StartsWith(text, <<"+">>) /\ ~StartsWith(text, <<"+","+","+">>)
            /\ ~Falsy(t.file)
            /\ Contains(text, kw)
            /\ Accepted(x)
            /\ ~ShouldIgnoreFile(t.file)
    THEN [task |-> t, hit |-> TRUE,
          event |-> [file |-> t.file, key |-> x.key, value |-> x.value,
                     commit |-> t.commit, author |-> t.author, date |-> t.date]]
    ELSE [task |-> t, hit |-> FALSE, event |-> none]

(***************************************************************************)
(* Masking: the three copies of mask_secret.                               *)
(***************************************************************************)
MaskCap == 16

\* a mask that returns a short value as it is
ScannerMaskSecretLeaky(value) ==
    IF Len(value) <= 4
    THEN value
    ELSE Take(value, 2) \o Rep("*", Min(Len(value) - 4, MaskCap)) \o LastN(value, 2)

\* scanner.py mask_secret
ScannerMaskSecret(value) ==
    IF Len(value) <= 4
    THEN <<"*","*","*","*">>
    ELSE Take(value, 2) \o Rep("*", Min(Len(value) - 4, MaskCap)) \o LastN(value, 2)

\* analyzer.py mask_secret: no cap on the number of asterisks
AnalyzerMaskSecret(value) ==
    IF Len(value) <= 4
    THEN <<"*","*","*","*">>
    ELSE Take(value, 2) \o Rep("*", Len(value) - 4) \o LastN(value, 2)

\* cleaner.py mask_secret
CleanerMaskSecret(value) ==
    IF Len(value) <= 4
    THEN <<"*","*","*","*">>
    ELSE Take(value, 2) \o Rep("*", Min(Len(value) - 4, MaskCap)) \o LastN(value, 2)

(***************************************************************************)
(* Scanner: merge into the index, finalization, stream entries.            *)
(***************************************************************************)
\* the characters of the model's strings in code-point order
AsciiChars ==
    <<" ","\"","$","(",")","*","+","-",".","/">> \o DigitChars \o <<":","=">>
    \o UpperChars \o <<"_">> \o LowerChars \o <<"{","|","}">>

\* ord(c), computed once for every character
CharOrdTable ==
    [c \in {AsciiChars[i] : i \in 1..Len(AsciiChars)} |->
        CHOOSE i \in 1..Len(AsciiChars) : AsciiChars[i] = c]

CharOrd(c) == CharOrdTable[c]

\* Python's a < b on two str
StrLess(a, b) ==
    \/ Len(a) < Len(b) /\ SubSeq(b, 1, Len(a)) = a
    \/ \E i \in 1..Min(Len(a), Len(b)) :
          /\ SubSeq(a, 1, i - 1) = SubSeq(b, 1, i - 1)
          /\ CharOrd(a[i]) < CharOrd(b[i])

\* `x not in xs` ... `xs.append(x)`
AppendNew(xs, x) == IF InSeq(x, xs) THEN xs ELSE Append(xs, x)

NewSecretValue(value, first, last) ==
    [value |-> value, masked_value |-> ScannerMaskSecret(value),
     commits |-> <<>>, authors |-> <<>>, first_seen |-> first, last_seen |-> last]

\* a merge that appends the commit and the author without looking for them
MergeEventAlwaysAppends(idx, e) ==
    LET fk  == <<e.file, e.key>>
        sv0 == IF fk \in DOMAIN idx THEN idx[fk] ELSE NewSecretValue(e.value, <<>>, <<>>)
        sv1 == [sv0 EXCEPT !.commits = Append(@, e.commit),
                           !.authors = Append(@, e.author),
                           !.first_seen = e.date, !.last_seen = e.date]
    IN  [index |-> [p \in DOMAIN idx \cup {fk} |-> IF p = fk THEN sv1 ELSE idx[p]],
         raised |-> FALSE]

\* the critical section of _search_keyword (`with lock:`): idx is the index
\* as a function on (file, key), e the event.  Comparing a None date with a
\* str raises TypeError, which leaves the statements before it done and ends
\* the task: [index, raised].
MergeEvent(idx, e) ==
    LET fk  == <<e.file, e.key>>
        sv0 == IF fk \in DOMAIN idx THEN idx[fk] ELSE NewSecretValue(e.value, <<>>, <<>>)
        sv1 == [sv0 EXCEPT !.commits = AppendNew(@, e.commit),
                           !.authors = AppendNew(@, e.author)]
        raise1 == ~Falsy(sv1.first_seen) /\ e.date = None
        sv2 == IF Falsy(sv1.first_seen) \/ StrLess(e.date, sv1.first_seen)
               THEN [sv1 EXCEPT !.first_seen = e.date] ELSE sv1
        raise2 == ~Falsy(sv2.last_seen) /\ e.date = None
        sv3 == IF Falsy(sv2.last_seen) \/ StrLess(sv2.last_seen, e.date)
               THEN [sv2 EXCEPT !.last_seen = e.date] ELSE sv2
        put(sv) == [p \in DOMAIN idx \cup {fk} |-> IF p = fk THEN sv ELSE idx[p]]
    IN  IF raise1 THEN [index |-> put(sv1), raised |-> TRUE]
        ELSE IF raise2 THEN [index |-> put(sv2), raised |-> TRUE]
        ELSE [index |-> put(sv3), raised |-> FALSE]

\* the body of scan_current's `if found and key and value`
MergeCurrent(idx, file, x, now) ==
    LET fk == <<file, x.key>>
    IN  IF fk \in DOMAIN idx THEN idx
        ELSE [p \in DOMAIN idx \cup {fk} |->
                 IF p = fk THEN NewSecretValue(x.value, now, now) ELSE idx[p]]

\* (a.file, a.key) < (b.file, b.key)
SecretLess(a, b) ==
    \/ StrLess(a.file, b.file)
    \/ a.file = b.file /\ StrLess(a.key, b.key)

\* sorted(..., key=(file, key)) of a set of secrets with distinct (file, key)
RECURSIVE SortSecrets(_)
SortSecrets(ss) ==
    IF ss = {} THEN <<>>
    ELSE LET m == CHOOSE a \in ss : \A b \in ss \ {a} : SecretLess(a, b)
         IN  <<m>> \o SortSecrets(ss \ {m})

\* the Secret built for one index entry by _build_secrets
SecretOf(fk, sv) ==
    [file |-> fk[1], key |-> fk[2], type |-> SecretType(fk[2]),
     change_count |-> Len(sv.commits), total_occurrences |-> Len(sv.commits),
     authors |-> sv.authors, history |-> <<sv>>]

\* Scanner._build_secrets
BuildSecrets(idx) == SortSecrets({SecretOf(fk, idx[fk]) : fk \in DOMAIN idx})

\* a result whose total_values counts the commits of the entries
BuildResultCountingCommits(idx) ==
    [secrets_found |-> Len(BuildSecrets(idx)),
     total_values |-> Len(Flatten([i \in 1..Len(BuildSecrets(idx)) |->
                                       BuildSecrets(idx)[i].history[1].commits])),
     secrets |-> BuildSecrets(idx)]

\* the ScanResult built at the end of scan and scan_current; the index holds
\* one SecretValue per (file, key), so sum(len(v) for v in index.values())
\* is the number of its entries
BuildResult(idx) ==
    [secrets_found |-> Len(BuildSecrets(idx)),
     total_values |-> Cardinality(DOMAIN idx),
     secrets |-> BuildSecrets(idx)]

\* f"{file}|{key}|{value}"
DedupKey(file, key, value) == file \o <<"|">> \o key \o <<"|">> \o value

\* StreamEntry(...).to_dict()
StreamEntryOf(e) ==
    [file |-> e.file, key |-> e.key, value |-> e.value,
     maskedValue |-> ScannerMaskSecret(e.value), type |-> SecretType(e.key),
     commit |-> e.commit, author |-> e.author, date |-> e.date]

\* a dedup step that forgets to record the key
StreamDedupForgetful(sn, file, e) ==
    IF DedupKey(e.file, e.key, e.value) \in sn
    THEN [seen |-> sn, file |-> file]
    ELSE [seen |-> sn, file |-> Append(file, StreamEntryOf(e))]

\* the dedup and write of _stream_keyword and scan_current_stream: sn is the
\* seen set, file the lines of the open output file
StreamDedupWrite(sn, file, e) ==
    IF DedupKey(e.file, e.key, e.value) \in sn
    THEN [seen |-> sn, file |-> file]
    ELSE [seen |-> sn \cup {DedupKey(e.file, e.key, e.value)},
          file |-> Append(file, StreamEntryOf(e))]

\* the filter loops of scan_both_stream: copy the lines of tmp whose dedup key
\* is new to the output
RECURSIVE FilterLines(_, _, _)
FilterLines(sn, out, tmp) ==
    IF tmp = <<>> THEN [seen |-> sn, file |-> out]
    ELSE LET l  == Head(tmp)
             dk == DedupKey(l.file, l.key, l.value)
         IN  IF dk \in sn THEN FilterLines(sn, out, Tail(tmp))
             ELSE FilterLines(sn \cup {dk}, Append(out, l), Tail(tmp))

ScanOps == {"scan", "scanCurrent", "scanBoth"}
StreamOps == {"scanStream", "scanCurrentStream", "scanBothStream"}
ScannerOps == ScanOps \cup StreamOps

MaxEvents == 2
MaxConcurrent == 2

Keywords == GetAllKeywords
TaskIds == 1..Len(Keywords)

NewTask == [st |-> "pending", file |-> None, commit |-> None, author |-> None,
            date |-> None]

\* a task that has returned: its locals are gone
DoneTask == [NewTask EXCEPT !.st = "done"]

\* a task that has ended in `except Exception: pass`
FailedTask == [NewTask EXCEPT !.st = "failed"]

\* an exception in one task that ends every task still to end
TaskRaisedCancelsAll(tasks, k) ==
    [j \in DOMAIN tasks |-> IF tasks[j].st = "done" THEN tasks[j] ELSE FailedTask]

\* `except Exception: pass` in the task of keyword k: that task ends, the
\* others are left as they are
TaskRaised(tasks, k) == [tasks EXCEPT ![k] = FailedTask]

(***************************************************************************)
(* Scanner: the operations.                                                *)
(***************************************************************************)
EmptyIndex == [p \in {} |-> None]

InitMaskVars ==
    /\ mv = None
    /\ produced = {}

InitLoadVars ==
    /\ loadIn = None
    /\ loaded = None

InitCleanVars ==
    /\ cl = None
    /\ repo = None
    /\ cmds = <<>>
    /\ probes = None

InitOtherVars ==
    /\ anIndex = <<>>
    /\ anTotal = 0
    /\ anRead = <<>>
    /\ analysis = None
    /\ exIn = None
    /\ exOut = None

InitScannerVars ==
    /\ task = [k \in TaskIds |-> NewTask]
    /\ index = EmptyIndex
    /\ histResult = None
    /\ result = None
    /\ seen = {}
    /\ seenOuter = {}
    /\ tmpf = <<>>
    /\ outf = <<>>
    /\ log = <<>>

InitScannerOps(ops) ==
    /\ op \in ops
    /\ pc = IF op \in {"scanCurrent", "scanCurrentStream"} THEN "walk" ELSE "history"
    /\ caseSensitive \in BOOLEAN
    /\ InitScannerVars
    /\ InitOtherVars
    /\ InitMaskVars
    /\ InitLoadVars
    /\ InitCleanVars

Running == {k \in TaskIds : task[k].st = "running"}

\* a wait that is over as soon as one task has ended
AnyTaskEnded(tasks) == \E k \in DOMAIN tasks : tasks[k].st \in {"done", "failed"}

\* `for future in futures: future.result()` and the exit of the executor's
\* `with` block have returned (scan); the loop over the keywords is over
\* (scan_stream)
AllTasksEnded(tasks) == \A k \in DOMAIN tasks : tasks[k].st \in {"done", "failed"}

\* scan submits every keyword to a pool of max_concurrent workers, which
\* start them in submission order; scan_stream calls _stream_keyword for one
\* keyword after the other.  The task starts the driver (subprocess.Popen),
\* which raises when git cannot be spawned
TaskStart(k) ==
    /\ op \in ScannerOps
    /\ pc = "history"
    /\ task[k].st = "pending"
    /\ \A j \in 1..(k - 1) : task[j].st # "pending"
    /\ Cardinality(Running) < (IF op \in StreamOps THEN 1 ELSE MaxConcurrent)
    /\ \E spawned \in BOOLEAN :
          task' = IF spawned THEN [task EXCEPT ![k].st = "running"]
                  ELSE TaskRaised(task, k)
    /\ UNCHANGED <<op, pc, caseSensitive, index, histResult, result, seen, seenOuter,
                   tmpf, outf, log, nonScanVars>>

\* where scan_stream / scan_current_stream write: scan_both_stream hands
\* them its temp file
WritesToTemp == op = "scanBothStream"

\* one line of the driver's output read by the task of keyword k
TaskLine(k) ==
    /\ op \in ScannerOps
    /\ task[k].st = "running"
    /\ \E ln \in LinesOf(op) :
         LET r == ParseLine(task[k], Keywords[k], ln, caseSensitive)
             e == r.event
         IN  /\ r.hit => Len(log) < MaxEvents
             /\ IF ~r.hit
                THEN /\ task' = [task EXCEPT ![k] = r.task]
                     /\ UNCHANGED <<index, seen, tmpf, outf, log>>
                ELSE /\ log' = Append(log, e @@ [src |-> "history"])
                     /\ IF op \in ScanOps
                        THEN LET m == MergeEvent(index, e)
                             IN  /\ index' = m.index
                                 /\ task' = IF m.raised THEN TaskRaised(task, k)
                                            ELSE [task EXCEPT ![k] = r.task]
                                 /\ UNCHANGED <<seen, tmpf, outf>>
                        ELSE LET w == StreamDedupWrite(seen, IF WritesToTemp THEN tmpf ELSE outf, e)
                             IN  /\ seen' = w.seen
                                 /\ tmpf' = IF WritesToTemp THEN w.file ELSE tmpf
                                 /\ outf' = IF WritesToTemp THEN outf ELSE w.file
                                 /\ task' = [task EXCEPT ![k] = r.task]
                                 /\ UNCHANGED index
    /\ UNCHANGED <<op, pc, caseSensitive, histResult, result, seenOuter, nonScanVars>>

\* the task of keyword k ends: the driver's output is exhausted and
\* process.wait() returns; the driver's exit status is not looked at
TaskEnd(k) ==
    /\ op \in ScannerOps
    /\ task[k].st = "running"
    /\ \E exit \in {"ok", "nonzero"} : task' = [task EXCEPT ![k] = DoneTask]
    /\ UNCHANGED <<op, pc, caseSensitive, index, histResult, result, seen, seenOuter,
                   tmpf, outf, log, nonScanVars>>

\* the merge of scan_both: a dict keyed by f"{file}|{key}", filled from the
\* history secrets, then from the current secrets whose key is not in it
RECURSIVE PutAll(_, _, _)
PutAll(d, secrets, overwrite) ==
    IF secrets = <<>> THEN d
    ELSE LET sc == Head(secrets)
             k  == sc.file \o <<"|">> \o sc.key
         IN  PutAll(IF k \in DOMAIN d /\ ~overwrite THEN d
                    ELSE [q \in DOMAIN d \cup {k} |-> IF q = k THEN sc ELSE d[q]],
                    Tail(secrets), overwrite)

\* a merge that fills the dict from the current secrets first
MergeBothCurrentFirst(h, c) ==
    LET all == PutAll(PutAll([q \in {} |-> None], c.secrets, TRUE), h.secrets, FALSE)
        merged == SortSecrets({all[q] : q \in DOMAIN all})
    IN  [secrets_found |-> Len(merged),
         total_values |-> h.total_values + c.total_values,
         secrets |-> merged]

\* the ScanResult of scan_both from the two results
MergeBoth(h, c) ==
    LET all == PutAll(PutAll([q \in {} |-> None], h.secrets, TRUE), c.secrets, FALSE)
        merged == SortSecrets({all[q] : q \in DOMAIN all})
    IN  [secrets_found |-> Len(merged),
         total_values |-> h.total_values + c.total_values,
         secrets |-> merged]

\* every keyword task has ended: scan builds its result; scan_stream has
\* returned and scan_both_stream filters the temp file into the output and
\* removes it
HistoryDone ==
    /\ op \in ScannerOps
    /\ pc = "history"
    /\ AllTasksEnded(task)
    /\ CASE op = "scan" ->
              /\ result' = BuildResult(index)
              /\ pc' = "done"
              /\ UNCHANGED <<index, histResult, seen, seenOuter, tmpf, outf>>
         [] op = "scanBoth" ->
              /\ histResult' = BuildResult(index)
              /\ index' = EmptyIndex
              /\ pc' = "walk"
              /\ UNCHANGED <<result, seen, seenOuter, tmpf, outf>>
         [] op = "scanStream" ->
              /\ pc' = "done"
              /\ UNCHANGED <<index, histResult, result, seen, seenOuter, tmpf, outf>>
         [] op = "scanBothStream" ->
              /\ seenOuter' = FilterLines(seenOuter, outf, tmpf).seen
              /\ outf' = FilterLines(seenOuter, outf, tmpf).file
              /\ tmpf' = <<>>
              /\ seen' = {}
              /\ pc' = "walk"
              /\ UNCHANGED <<index, histResult, result>>
    /\ UNCHANGED <<op, caseSensitive, task, log, nonScanVars>>

\* the `for keyword in keywords` loop of the working-tree walk on one line
\* of file f, from keyword i on; st = [index, seen, file, log]
RECURSIVE WalkKeywords(_, _, _, _, _, _)
WalkKeywords(st, i, f, ln, now, cs) ==
    IF i > Len(Keywords) THEN st
    ELSE LET x == ExtractKeyValue(ln.groups, cs)
             e == [file |-> f, key |-> x.key, value |-> x.value,
                   commit |-> <<"H","E","A","D">>, author |-> <<>>, date |-> now]
         IN  IF Contains(Tail(ln.text), Keywords[i]) /\ Accepted(x)
             THEN WalkKeywords(
                    IF op \in ScanOps
                    THEN [st EXCEPT !.index = MergeCurrent(st.index, f, x, now),
                                    !.log = Append(st.log, e @@ [src |-> "current"])]
                    ELSE [st EXCEPT !.seen = StreamDedupWrite(st.seen, st.file, e).seen,
                                    !.file = StreamDedupWrite(st.seen, st.file, e).file,
                                    !.log = Append(st.log, e @@ [src |-> "current"])],
                    i + 1, f, ln, now, cs)
             ELSE WalkKeywords(st, i + 1, f, ln, now, cs)

\* `any(filename.endswith(ext) ...)`
IsBinary(f) ==
    \E i \in 1..Len(ExcludeBinaryExtensions) : EndsWith(f, ExcludeBinaryExtensions[i])

\* one line of one file of the working tree (scan_current,
\* scan_current_stream); a file that is ignored, binary or larger than
\* MAX_FILE_SIZE is skipped
WalkLine ==
    /\ op \in ScannerOps
    /\ pc = "walk"
    /\ Len(log) < MaxEvents
    /\ \E f \in WalkFiles, ln \in ContentLines, now \in NowDates, large \in BOOLEAN :
         IF ShouldIgnoreFile(f) \/ IsBinary(f) \/ large
         THEN UNCHANGED <<index, seen, tmpf, outf, log>>
         ELSE LET st == WalkKeywords(
                          [index |-> index, seen |-> seen,
                           file |-> IF WritesToTemp THEN tmpf ELSE outf, log |-> log],
                          1, f, ln, now, caseSensitive)
              IN  /\ index' = st.index
                  /\ seen' = st.seen
                  /\ tmpf' = IF WritesToTemp THEN st.file ELSE tmpf
                  /\ outf' = IF WritesToTemp THEN outf ELSE st.file
                  /\ log' = st.log
    /\ UNCHANGED <<op, pc, caseSensitive, task, histResult, result, seenOuter, nonScanVars>>

\* the walk is over: scan_current builds its result, scan_both merges the
\* two results, scan_both_stream filters the temp file into the output
WalkDone ==
    /\ op \in ScannerOps
    /\ pc = "walk"
    /\ CASE op = "scanCurrent" ->
              /\ result' = BuildResult(index)
              /\ UNCHANGED <<seenOuter, tmpf, outf>>
         [] op = "scanBoth" ->
              /\ result' = MergeBoth(histResult, BuildResult(index))
              /\ UNCHANGED <<seenOuter, tmpf, outf>>
         [] op = "scanCurrentStream" ->
              /\ UNCHANGED <<result, seenOuter, tmpf, outf>>
         [] op = "scanBothStream" ->
              /\ seenOuter' = FilterLines(seenOuter, outf, tmpf).seen
              /\ outf' = FilterLines(seenOuter, outf, tmpf).file
              /\ tmpf' = <<>>
              /\ UNCHANGED result
    /\ pc' = "done"
    /\ UNCHANGED <<op, caseSensitive, task, index, histResult, seen, log, nonScanVars>>

NextScanner ==
    \/ \E k \in TaskIds : TaskStart(k)
    \/ \E k \in TaskIds : TaskLine(k)
    \/ \E k \in TaskIds : TaskEnd(k)
    \/ HistoryDone
    \/ WalkLine
    \/ WalkDone

InitScan == InitScannerOps(ScanOps)
InitStream == InitScannerOps(StreamOps)

\* scan, scan_current, scan_both
SpecScan == InitScan /\ [][NextScanner]_vars

\* scan_stream, scan_current_stream, scan_both_stream
SpecStream == InitStream /\ [][NextScanner]_vars

InitScanner == InitScannerOps(ScannerOps)

\* the six scanning operations
SpecScanner == InitScanner /\ [][NextScanner]_vars

(***************************************************************************)
(* Masking run: each mask_secret applied to one value.                     *)
(***************************************************************************)
MaxValueLen == 22

\* a value of length n: the lower-case alphabet from letter k on, cyclically
MkValue(n, k) == [i \in 1..n |-> LowerChars[((i + k - 2) % Len(LowerChars)) + 1]]

MaskInputs == {MkValue(n, k) : n \in 0..MaxValueLen, k \in {1, 14}}

InitMask ==
    /\ op = "mask"
    /\ pc = "run"
    /\ caseSensitive = FALSE
    /\ InitScannerVars
    /\ InitOtherVars
    /\ mv \in MaskInputs
    /\ produced = {}
    /\ InitLoadVars
    /\ InitCleanVars

\* Scanner: NewSecretValue / StreamEntry mask the value
MaskByScanner ==
    /\ op = "mask"
    /\ produced' = produced \cup {[by |-> "scanner", maskedValue |-> ScannerMaskSecret(mv)]}
    /\ UNCHANGED <<op, pc, caseSensitive, otherVars, scanVars, mv, loadVars, cleanVars>>

\* Analyzer._build_analysis masks the value of each history entry
MaskByAnalyzer ==
    /\ op = "mask"
    /\ produced' = produced \cup {[by |-> "analyzer", maskedValue |-> AnalyzerMaskSecret(mv)]}
    /\ UNCHANGED <<op, pc, caseSensitive, otherVars, scanVars, mv, loadVars, cleanVars>>

\* Cleaner.clean masks the preview of a dry run
MaskByCleaner ==
    /\ op = "mask"
    /\ produced' = produced \cup {[by |-> "cleaner", maskedValue |-> CleanerMaskSecret(mv)]}
    /\ UNCHANGED <<op, pc, caseSensitive, otherVars, scanVars, mv, loadVars, cleanVars>>

NextMask == MaskByScanner \/ MaskByAnalyzer \/ MaskByCleaner

SpecMask == InitMask /\ [][NextMask]_vars

(***************************************************************************)
(* Cleaner: load_secrets_from_jsonl / load_secrets_from_json.              *)
(*                                                                         *)
(* A JSON object is a function on the keys it has; a line of the JSONL     *)
(* file is an object or Blank.                                             *)
(***************************************************************************)
MaxLoadLines == 2

Blank == [blank |-> TRUE]

LoadValues == { <<"h","u","n","t","e","r","2">>, <<"h","u","n","t","e","r">> }
LoadFile == <<".","e","n","v">>

\* the `commit` member of an item: the string, or JSON null
LoadCommits == { <<>>, <<"H","E","A","D">>, <<"c","1">>, None }

LoadItems ==
    {[value |-> v, file |-> LoadFile, commit |-> c] : v \in LoadValues, c \in LoadCommits}
    \cup {[value |-> v, file |-> LoadFile] : v \in LoadValues}

SeqsUpTo(S, n) == UNION {[1..m -> S] : m \in 0..n}

InitLoad ==
    /\ op \in {"loadJSONL", "loadJSON"}
    /\ pc = "run"
    /\ caseSensitive = FALSE
    /\ InitScannerVars
    /\ InitOtherVars
    /\ InitMaskVars
    /\ InitCleanVars
    /\ loadIn \in IF op = "loadJSONL"
                  THEN {[lines |-> l] : l \in SeqsUpTo(LoadItems \cup {Blank}, MaxLoadLines)}
                  ELSE {[results |-> l] : l \in SeqsUpTo(LoadItems, MaxLoadLines)}
                       \cup {[other |-> <<>>]}
    /\ loaded = None

Has(item, k) == k \in DOMAIN item

\* the items the loops of the two loaders visit
LoadedItems(input) ==
    IF Has(input, "lines")
    THEN SelectSeq(input.lines, LAMBDA l : ~Has(l, "blank"))
    ELSE IF Has(input, "results") THEN input.results ELSE <<>>

\* `if "commit" in item and item["commit"]`
HasCommit(item) == Has(item, "commit") /\ ~Falsy(item.commit)

\* source_set after the loop
SourceSet(items) ==
    {"history" : i \in {j \in 1..Len(items) : HasCommit(items[j])}}
    \cup {"current" : i \in {j \in 1..Len(items) : ~HasCommit(items[j])}}

\* a loader that tests the history member first
SourceStrHistoryFirst(source_set) ==
    IF "history" \in source_set THEN "history"
    ELSE IF "history" \in source_set /\ "current" \in source_set THEN "both"
    ELSE "current"

\* source_str from source_set
SourceStr(source_set) ==
    IF "history" \in source_set /\ "current" \in source_set THEN "both"
    ELSE IF "history" \in source_set THEN "history"
    ELSE "current"

\* file_paths: the files in order of first appearance
RECURSIVE FilePaths(_)
FilePaths(items) ==
    IF items = <<>> THEN <<>>
    ELSE LET rest == FilePaths(SubSeq(items, 1, Len(items) - 1))
             it   == items[Len(items)]
         IN  IF Has(it, "file") THEN AppendNew(rest, it.file) ELSE rest

\* file_map: how many items name each file
FileMap(items) ==
    [f \in {items[i].file : i \in {j \in 1..Len(items) : Has(items[j], "file")}} |->
        Cardinality({j \in 1..Len(items) : Has(items[j], "file") /\ items[j].file = f})]

Perms(S) == {q \in [1..Cardinality(S) -> S] : \A i, j \in 1..Cardinality(S) : q[i] = q[j] => i = j}

\* list(set(secrets)): a set iterates in an order the program does not fix;
\* the JSON loader then sorts by length, longest first
SecretOrders(items, byLength) ==
    LET vs == {items[i].value : i \in {j \in 1..Len(items) : Has(items[j], "value")}}
    IN  {q \in Perms(vs) :
            byLength => \A i, j \in 1..Len(q) : i < j => Len(q[i]) >= Len(q[j])}

\* load_secrets_from_jsonl, load_secrets_from_json
LoadSecrets ==
    /\ op \in {"loadJSONL", "loadJSON"}
    /\ pc = "run"
    /\ LET items == LoadedItems(loadIn)
       IN  \E q \in SecretOrders(items, op = "loadJSON") :
              loaded' = [secrets |-> q, file_paths |-> FilePaths(items),
                         file_map |-> FileMap(items),
                         source |-> SourceStr(SourceSet(items))]
    /\ pc' = "done"
    /\ UNCHANGED <<op, caseSensitive, otherVars, scanVars, maskVars, loadIn, cleanVars>>

NextLoad == LoadSecrets

SpecLoad == InitLoad /\ [][NextLoad]_vars

(***************************************************************************)
(* Cleaner.clean.                                                          *)
(*                                                                         *)
(* A subprocess.run ends in one of: "ok" (exit 0), "nonzero", "timeout"    *)
(* (TimeoutExpired) or "notfound" (the program or the cwd does not exist:  *)
(* FileNotFoundError, which is an OSError and no SubprocessError).         *)
(***************************************************************************)
ToolOutcomes == {"ok", "nonzero", "timeout", "notfound"}

\* the exception subprocess.run(..., check=check) raises on an outcome
Raises(outcome, check) ==
    IF outcome = "timeout" \/ (outcome = "nonzero" /\ check) THEN "SubprocessError"
    ELSE IF outcome = "notfound" THEN "FileNotFoundError"
    ELSE "none"

\* cleaner.py has_filter_repo: run without check, True unless it raised
HasFilterRepo(fr) == Raises(fr, FALSE) = "none"

\* cleaner.py has_bfg: `bfg --version`, then `java -jar bfg.jar --version`
HasBfg(bfg, java) == Raises(bfg, FALSE) = "none" \/ Raises(java, FALSE) = "none"

\* the probes _select_best_tool runs, given how each would end
ProbesRun(fr, bfg, java) ==
    [fr   |-> fr,
     bfg  |-> IF HasFilterRepo(fr) THEN "notrun" ELSE bfg,
     java |-> IF HasFilterRepo(fr) \/ Raises(bfg, FALSE) = "none" THEN "notrun" ELSE java]

NoProbes == [fr |-> "notrun", bfg |-> "notrun", java |-> "notrun"]

\* Cleaner._select_best_tool
SelectBestTool(pr) ==
    IF HasFilterRepo(pr.fr) THEN "filter-repo"
    ELSE IF HasBfg(pr.bfg, pr.java) THEN "bfg"
    ELSE "filter-branch"

BatchSize == 100
PreviewMax == 10

\* len(_group_secrets_into_patterns(secrets))
PatternsUsed(secrets) == (Len(secrets) + BatchSize - 1) \div BatchSize

\* [mask_secret(s) for s in secrets[:10]]
Preview(secrets) ==
    [i \in 1..Min(Len(secrets), PreviewMax) |-> CleanerMaskSecret(secrets[i])]

\* a clean that does not look at dry_run
DryRunIgnored(opts) == FALSE

\* `if opts.dry_run:`
DryRunReturns(opts) == opts.dry_run

Removed == <<"*","*","*","R","E","M","O","V","E","D","*","*","*">>

\* content.replace(old, new)
RECURSIVE Replace(_, _, _)
Replace(content, old, new) ==
    IF old = <<>>
    THEN IF content = <<>> THEN new
         ELSE new \o <<Head(content)>> \o Replace(Tail(content), old, new)
    ELSE IF Len(content) < Len(old) THEN content
    ELSE IF StartsWith(content, old)
    THEN new \o Replace(SubSeq(content, Len(old) + 1, Len(content)), old, new)
    ELSE <<Head(content)>> \o Replace(Tail(content), old, new)

\* `for secret in secrets: content = content.replace(secret, "***REMOVED***")`
RECURSIVE ReplaceSecrets(_, _)
ReplaceSecrets(content, secrets) ==
    IF secrets = <<>> THEN content
    ELSE ReplaceSecrets(Replace(content, Head(secrets), Removed), Tail(secrets))

\* the file loop of _clean_current_files over the paths `allowed`
CleanFiles(files, allowed, secrets) ==
    [f \in DOMAIN files |->
        IF f \in allowed THEN ReplaceSecrets(files[f], secrets) ELSE files[f]]

\* preview_secrets: Optional[List[str]] = None
NoPreview == <<None>>

CleanResult0 ==
    [tool |-> "", source |-> "", secrets_removed |-> 0, patterns_used |-> 0,
     files_modified |-> 0, success |-> FALSE, message |-> "", backup_branch |-> "",
     dry_run |-> FALSE, preview_secrets |-> NoPreview]

\* f"backup-before-clean-{pid}"
BackupName == "backup-before-clean-<pid>"

WorkTree0 ==
    [f \in {".env", "n.txt"} |->
        IF f = ".env" THEN <<"p","w","=","h","u","n","t","e","r","2">> ELSE <<"n","o","n","e">>]

LongSecret == <<"a","b","c","d","e","f","g","h","i","j","k","l","m","n","o","p","q","r","s","t","u","v">>

SecretLists ==
    { <<>>,
      << <<"h","u","n","t","e","r","2">> >>,
      << <<"h","u","n","t","e","r">>, <<"h","u","n","t","e","r","2">> >>,
      <<LongSecret>> \o [i \in 1..PreviewMax |-> <<"s","e","c">> \o <<DigitChars[i]>>] }

CleanOptionsSet ==
    [tool : {"auto", "filter-repo", "bfg", "filter-branch"},
     source : {"", "current", "history", "both"},
     file_paths : {{}, {".env"}},
     dry_run : BOOLEAN,
     no_backup : BOOLEAN]

InitClean ==
    /\ op = "clean"
    /\ pc = "start"
    /\ caseSensitive = FALSE
    /\ InitScannerVars
    /\ InitOtherVars
    /\ InitMaskVars
    /\ InitLoadVars
    /\ cl \in [opts : CleanOptionsSet, secrets : SecretLists, tool : {""},
               result : {CleanResult0}]
    /\ repo = [files |-> WorkTree0, branches |-> {"main"}, temps |-> {},
               rewritten |-> FALSE]
    /\ cmds = <<>>
    /\ probes = NoProbes

\* one subprocess the clean started, or one write it made, and how it ended
Cmd(c, o) == [cmd |-> c, outcome |-> o]

Fail(msg) == [cl EXCEPT !.result.success = FALSE, !.result.message = msg]

\* clean, from its entry to the dry-run return
CleanStart ==
    /\ op = "clean" /\ pc = "start"
    /\ UNCHANGED <<op, caseSensitive, otherVars, scanVars, maskVars, loadVars, repo, cmds>>
    /\ IF cl.secrets = <<>>
       THEN /\ cl' = [cl EXCEPT !.result.success = TRUE,
                                !.result.message = "No secrets to clean"]
            /\ pc' = "done"
            /\ UNCHANGED probes
       ELSE \E fr \in ToolOutcomes, bfg \in ToolOutcomes, java \in ToolOutcomes :
            LET source == IF cl.opts.source = "" THEN "both" ELSE cl.opts.source
                pr     == IF cl.opts.tool = "auto" THEN ProbesRun(fr, bfg, java)
                          ELSE NoProbes
                tool   == IF cl.opts.tool = "auto" THEN SelectBestTool(pr)
                          ELSE cl.opts.tool
                c1     == [cl EXCEPT !.opts.source = source,
                                     !.tool = tool,
                                     !.result.source = source,
                                     !.result.dry_run = cl.opts.dry_run,
                                     !.result.tool = tool,
                                     !.result.patterns_used = PatternsUsed(cl.secrets)]
            IN /\ probes' = pr
               /\ IF DryRunReturns(cl.opts)
                  THEN /\ cl' = [c1 EXCEPT !.result.preview_secrets = Preview(cl.secrets),
                                           !.result.success = TRUE,
                                           !.result.message = "Dry run"]
                       /\ pc' = "done"
                  ELSE /\ cl' = c1
                       /\ pc' = IF ~cl.opts.no_backup THEN "backup" ELSE "current"

\* `git branch backup-before-clean-<pid>` with check=True
CleanBackup ==
    /\ op = "clean" /\ pc = "backup"
    /\ UNCHANGED <<op, caseSensitive, otherVars, scanVars, maskVars, loadVars, probes>>
    /\ \E o \in ToolOutcomes :
        /\ cmds' = Append(cmds, Cmd("git branch", o))
        /\ IF Raises(o, TRUE) = "none"
           THEN /\ repo' = [repo EXCEPT !.branches = @ \cup {BackupName}]
                /\ cl' = [cl EXCEPT !.result.backup_branch = BackupName]
                /\ pc' = "current"
           ELSE IF Raises(o, TRUE) = "SubprocessError"
           THEN /\ cl' = Fail("Failed to create backup branch")
                /\ pc' = "done"
                /\ UNCHANGED repo
           ELSE /\ pc' = "raised"
                /\ UNCHANGED <<cl, repo>>

\* the working-tree pass: _clean_current_files
CleanCurrent ==
    /\ op = "clean" /\ pc = "current"
    /\ UNCHANGED <<op, caseSensitive, otherVars, scanVars, maskVars, loadVars, probes>>
    /\ IF cl.opts.source \notin {"current", "both"}
       THEN /\ pc' = "history"
            /\ UNCHANGED <<cl, repo, cmds>>
       ELSE \E o \in ToolOutcomes :
            LET listed  == cl.opts.file_paths = {}
                exc     == IF listed THEN Raises(o, FALSE) ELSE "none"
                allowed == IF ~listed THEN cl.opts.file_paths
                           ELSE IF o = "ok" THEN DOMAIN repo.files
                           ELSE {}
                files   == CleanFiles(repo.files, allowed, cl.secrets)
                changed == {f \in DOMAIN files : files[f] # repo.files[f]}
                ran     == IF listed THEN <<Cmd("git ls-files", o)>> ELSE <<>>
                wrote   == IF changed = {} THEN <<>> ELSE <<Cmd("write-files", "ok")>>
            IN IF exc = "FileNotFoundError"
               THEN /\ pc' = "raised"
                    /\ cmds' = cmds \o ran
                    /\ UNCHANGED <<cl, repo>>
               ELSE /\ pc' = "history"
                    /\ cmds' = cmds \o ran \o wrote
                    /\ repo' = [repo EXCEPT !.files = files]
                    /\ cl' = [cl EXCEPT !.result.files_modified = Cardinality(changed)]

TempName(tool) == IF tool \in {"filter-repo", "bfg"} THEN "tmp.txt" ELSE "tmp.sed"

\* the history pass up to the backend's start: the temp file is written
CleanHistoryWrite ==
    /\ op = "clean" /\ pc = "history"
    /\ UNCHANGED <<op, caseSensitive, otherVars, scanVars, maskVars, loadVars, probes, cl>>
    /\ IF cl.opts.source \notin {"history", "both"}
       THEN /\ pc' = "gc"
            /\ UNCHANGED <<repo, cmds>>
       ELSE /\ pc' = "backend"
            /\ repo' = [repo EXCEPT !.temps = @ \cup {TempName(cl.tool)}]
            /\ cmds' = Append(cmds, Cmd("write-temp", "ok"))

\* the backend's run, its `finally: os.unlink`, and clean's except clause
CleanHistoryRun ==
    /\ op = "clean" /\ pc = "backend"
    /\ UNCHANGED <<op, caseSensitive, otherVars, scanVars, maskVars, loadVars, probes>>
    /\ \E o \in ToolOutcomes, j \in ToolOutcomes :
        LET name     == IF cl.tool = "filter-repo" THEN "git filter-repo"
                        ELSE IF cl.tool = "bfg" THEN "bfg"
                        ELSE "git filter-branch"
            fallback == cl.tool = "bfg" /\ Raises(o, TRUE) = "FileNotFoundError"
            exc      == IF fallback THEN Raises(j, TRUE) ELSE Raises(o, TRUE)
            ran      == <<Cmd(name, o)>> \o
                        (IF fallback THEN <<Cmd("java -jar bfg.jar", j)>> ELSE <<>>)
        IN /\ cmds' = cmds \o ran
           /\ repo' = [repo EXCEPT !.temps = @ \ {TempName(cl.tool)},
                                   !.rewritten = (exc = "none")]
           /\ IF exc = "none"
              THEN /\ pc' = "gc"
                   /\ UNCHANGED cl
              ELSE IF exc = "SubprocessError"
              THEN /\ cl' = Fail("Failed to clean history")
                   /\ pc' = "done"
              ELSE /\ pc' = "raised"
                   /\ UNCHANGED cl

\* `git reflog expire` then `git gc`, both without check, and the final return
CleanGC ==
    /\ op = "clean" /\ pc = "gc"
    /\ UNCHANGED <<op, caseSensitive, otherVars, scanVars, maskVars, loadVars, probes, repo>>
    /\ \E o1 \in ToolOutcomes, o2 \in ToolOutcomes :
        LET e1  == Raises(o1, FALSE)
            exc == IF e1 = "none" THEN Raises(o2, FALSE) ELSE e1
            ran == <<Cmd("git reflog expire", o1)>> \o
                   (IF e1 = "none" THEN <<Cmd("git gc", o2)>> ELSE <<>>)
        IN /\ cmds' = cmds \o ran
           /\ IF exc = "none"
              THEN /\ cl' = [cl EXCEPT !.result.success = TRUE,
                                       !.result.secrets_removed = Len(cl.secrets),
                                       !.result.message = "Successfully cleaned"]
                   /\ pc' = "done"
              ELSE IF exc = "SubprocessError"
              THEN /\ cl' = Fail("Failed to clean up git")
                   /\ pc' = "done"
              ELSE /\ pc' = "raised"
                   /\ UNCHANGED cl

NextClean ==
    \/ CleanStart
    \/ CleanBackup
    \/ CleanCurrent
    \/ CleanHistoryWrite
    \/ CleanHistoryRun
    \/ CleanGC

SpecClean == InitClean /\ [][NextClean]_vars

(***************************************************************************)
(* Analyzer (analyzer.py): analyze_json / analyze_jsonl.                   *)
(*                                                                         *)
(* An entry is a JSON object: a function on the members it has.  The index *)
(* is a dict, which iterates in insertion order: a sequence of secret_data *)
(* records, each with its `values` dict as a sequence.  A set of authors   *)
(* iterates in an order the program does not fix.                          *)
(***************************************************************************)
MaxEntries == 3

\* entry.get(k, '')
EntryGet(entry, k) == IF k \in DOMAIN entry THEN entry[k] ELSE <<>>

AnEntries ==
    { [file |-> <<"a","|","b">>, key |-> <<"c">>, value |-> <<"h","u","n","t","e","r","2">>, type |-> <<"p","a","s","s","w","o","r","d">>, author |-> <<"a","n","n">>, date |-> <<"2","0","2","1">>],
      [file |-> <<"a">>, key |-> <<"b","|","c">>, value |-> <<"h","u","n","t","e","r","2">>, type |-> <<"p","a","s","s","w","o","r","d">>, author |-> <<"b","o","b">>, date |-> <<"2","0","2","2">>],
      [file |-> <<"a">>, key |-> <<"c">>, value |-> <<"h","u","n","t","e","r","2">>, type |-> <<"p","a","s","s","w","o","r","d">>, author |-> <<"a","n","n">>, date |-> <<"2","0","2","2">>],
      [file |-> <<"a">>, key |-> <<"c">>, value |-> <<"h","u","n","t","e","r">>, type |-> <<"p","a","s","s","w","o","r","d">>, author |-> <<"b","o","b">>, date |-> <<"2","0","2","1">>],
      [file |-> <<"a">>, key |-> <<"c">>, value |-> <<"h","u","n","t","e","r","2">>, type |-> <<"p","a","s","s","w","o","r","d">>, author |-> <<"b","o","b">>, date |-> <<"2","0","2","1">>],
      [key |-> <<"c">>, value |-> <<"h","u","n","t","e","r">>] }

\* position of the first element of seq satisfying Test, 0 when there is none
FirstPos(seq, Test(_)) ==
    IF \E i \in 1..Len(seq) : Test(seq[i])
    THEN CHOOSE i \in 1..Len(seq) : Test(seq[i]) /\ \A j \in 1..(i - 1) : ~Test(seq[j])
    ELSE 0

\* the loop body of analyze_json / analyze_jsonl on one entry
AnalyzerMerge(idx, entry) ==
    LET file   == EntryGet(entry, "file")
        key    == EntryGet(entry, "key")
        value  == EntryGet(entry, "value")
        author == EntryGet(entry, "author")
        date   == EntryGet(entry, "date")
        sk     == file \o <<"|">> \o key
        pos    == FirstPos(idx, LAMBDA d : d.secret_key = sk)
        idx1   == IF pos = 0
                  THEN Append(idx, [secret_key |-> sk, file |-> file, key |-> key,
                                    type |-> EntryGet(entry, "type"), values |-> <<>>,
                                    authors |-> {}, dates |-> <<>>, change_count |-> 0])
                  ELSE idx
        p      == IF pos = 0 THEN Len(idx1) ELSE pos
        sd     == idx1[p]
        vpos   == FirstPos(sd.values, LAMBDA v : v.value = value)
        vals1  == IF vpos = 0
                  THEN Append(sd.values, [value |-> value, occurrences |-> 0,
                                          authors |-> {}, dates |-> <<>>])
                  ELSE sd.values
        vp     == IF vpos = 0 THEN Len(vals1) ELSE vpos
        vals2  == [vals1 EXCEPT ![vp].occurrences = @ + 1,
                                ![vp].authors = @ \cup {author},
                                ![vp].dates = Append(@, date)]
    IN  [idx1 EXCEPT ![p] = [sd EXCEPT !.values = vals2,
                                       !.authors = @ \cup {author},
                                       !.dates = Append(@, date),
                                       !.change_count = @ + 1]]

\* d[k] = d.get(k, 0) + 1 on an insertion-ordered dict of counts
CountUp(counts, k) ==
    LET pos == FirstPos(counts, LAMBDA c : c.name = k)
    IN  IF pos = 0 THEN Append(counts, [name |-> k, count |-> 1])
        ELSE [counts EXCEPT ![pos].count = @ + 1]

RECURSIVE CountUpAll(_, _)
CountUpAll(counts, ks) ==
    IF ks = <<>> THEN counts ELSE CountUpAll(CountUp(counts, Head(ks)), Tail(ks))

\* a sort that forgets reverse=True
SortAscBy(seq, keys) ==
    LET rank(i) == Cardinality({j \in 1..Len(seq) :
                       keys[j] < keys[i] \/ (keys[j] = keys[i] /\ j < i)}) + 1
    IN  [r \in 1..Len(seq) |-> seq[CHOOSE i \in 1..Len(seq) : rank(i) = r]]

\* sorted(seq, key=keys, reverse=True): descending and stable
SortDescBy(seq, keys) ==
    LET rank(i) == Cardinality({j \in 1..Len(seq) :
                       keys[j] > keys[i] \/ (keys[j] = keys[i] /\ j < i)}) + 1
    IN  [r \in 1..Len(seq) |-> seq[CHOOSE i \in 1..Len(seq) : rank(i) = r]]

\* sorted(seq) of strings
SortStrings(seq) ==
    LET rank(i) == Cardinality({j \in 1..Len(seq) :
                       StrLess(seq[j], seq[i]) \/ (seq[j] = seq[i] /\ j < i)}) + 1
    IN  [r \in 1..Len(seq) |-> seq[CHOOSE i \in 1..Len(seq) : rank(i) = r]]

\* sorted(list(a_set))
SortSet(S) ==
    LET rank(x) == Cardinality({y \in S : StrLess(y, x)}) + 1
    IN  [r \in 1..Cardinality(S) |-> CHOOSE x \in S : rank(x) = r]

TopN == 10

\* the authors of a set in the order the set iterates: ord lists every author
IterSet(S, ord) == SelectSeq(ord, LAMBDA a : a \in S)

RECURSIVE SumSeq(_)
SumSeq(ns) == IF ns = <<>> THEN 0 ELSE Head(ns) + SumSeq(Tail(ns))

\* Analyzer._build_stats; ord is the iteration order of the author sets
BuildStats(idx, total_entries, ord) ==
    LET files   == [i \in 1..Len(idx) |-> idx[i].file]
        types   == [i \in 1..Len(idx) |-> idx[i].type]
        authors == Flatten([i \in 1..Len(idx) |-> IterSet(idx[i].authors, ord)])
        byCount(counts) == SortDescBy(counts, [i \in 1..Len(counts) |-> counts[i].count])
    IN  [total_entries  |-> total_entries,
         unique_secrets |-> Len(idx),
         unique_values  |-> SumSeq([i \in 1..Len(idx) |-> Len(idx[i].values)]),
         top_authors    |-> Take(byCount(CountUpAll(<<>>, authors)), TopN),
         top_files      |-> Take(byCount(CountUpAll(<<>>, files)), TopN),
         type_breakdown |-> byCount(CountUpAll(<<>>, types))]

\* the ValueEntry built for one item of secret_data['values']
ValueEntryOf(vd) ==
    LET ds == SortStrings(vd.dates)
    IN  [value |-> vd.value, masked_value |-> AnalyzerMaskSecret(vd.value),
         occurrences |-> vd.occurrences, authors |-> SortSet(vd.authors),
         first_seen |-> IF ds = <<>> THEN <<>> ELSE ds[1],
         last_seen |-> IF ds = <<>> THEN <<>> ELSE ds[Len(ds)]]

\* the Secret built for one secret_data
AnalysisSecretOf(sd) ==
    LET ds   == SortStrings(sd.dates)
        hist == [i \in 1..Len(sd.values) |-> ValueEntryOf(sd.values[i])]
        history == SortDescBy(hist, [i \in 1..Len(hist) |-> hist[i].occurrences])
    IN  [file |-> sd.file, key |-> sd.key, type |-> sd.type,
         change_count |-> sd.change_count,
         total_occurrences |-> SumSeq([i \in 1..Len(history) |-> history[i].occurrences]),
         authors |-> SortSet(sd.authors),
         first_seen |-> IF ds = <<>> THEN <<>> ELSE ds[1],
         last_seen |-> IF ds = <<>> THEN <<>> ELSE ds[Len(ds)],
         history |-> history]

\* Analyzer._build_analysis
BuildAnalysis(idx, stats) ==
    LET secrets == [i \in 1..Len(idx) |-> AnalysisSecretOf(idx[i])]
    IN  [stats |-> stats,
         secrets |-> SortDescBy(secrets, [i \in 1..Len(secrets) |-> secrets[i].change_count])]

AnalyzerOps == {"analyzeJSON", "analyzeJSONL"}

\* the orders in which the author sets of an index can iterate: every order
\* of a few authors, two orders of many
AuthorOrders(idx) ==
    LET all == UNION {idx[i].authors : i \in 1..Len(idx)}
        asc == SortSet(all)
    IN  IF Cardinality(all) <= 3 THEN Perms(all)
        ELSE {asc, [i \in 1..Len(asc) |-> asc[Len(asc) + 1 - i]]}

InitNonAnalyzer ==
    /\ caseSensitive = FALSE
    /\ task = [k \in TaskIds |-> NewTask]
    /\ index = EmptyIndex
    /\ histResult = None
    /\ result = None
    /\ seen = {}
    /\ seenOuter = {}
    /\ tmpf = <<>>
    /\ outf = <<>>
    /\ log = <<>>
    /\ InitMaskVars
    /\ InitLoadVars
    /\ InitCleanVars
    /\ exIn = None
    /\ exOut = None

InitAnalyze ==
    /\ op \in AnalyzerOps
    /\ pc = "read"
    /\ anIndex = <<>>
    /\ anTotal = 0
    /\ anRead = <<>>
    /\ analysis = None
    /\ InitNonAnalyzer

\* one entry of data['results'], or one line of the JSONL file (a blank line
\* is skipped)
AnalyzeEntry ==
    /\ op \in AnalyzerOps
    /\ pc = "read"
    /\ Len(anRead) < MaxEntries
    /\ \E e \in AnEntries \cup (IF op = "analyzeJSONL" THEN {Blank} ELSE {}) :
         IF e = Blank
         THEN UNCHANGED <<anIndex, anTotal, anRead>>
         ELSE /\ anIndex' = AnalyzerMerge(anIndex, e)
              /\ anTotal' = anTotal + 1
              /\ anRead' = Append(anRead, e)
    /\ UNCHANGED <<op, pc, caseSensitive, scanVars, maskVars, loadVars, cleanVars,
                   analysis, exVars>>

\* the input is exhausted: _build_stats, then _build_analysis
AnalyzeDone ==
    /\ op \in AnalyzerOps \cup {"buildStats"}
    /\ pc = "read"
    /\ \E ord \in AuthorOrders(anIndex) :
         analysis' = BuildAnalysis(anIndex, BuildStats(anIndex, anTotal, ord))
    /\ pc' = "done"
    /\ UNCHANGED <<op, caseSensitive, scanVars, maskVars, loadVars, cleanVars,
                   anIndex, anTotal, anRead, exVars>>

NextAnalyze == AnalyzeEntry \/ AnalyzeDone

SpecAnalyze == InitAnalyze /\ [][NextAnalyze]_vars

(***************************************************************************)
(* _build_stats / _build_analysis on an index with many authors.           *)
(***************************************************************************)
NumAuthors == 12
MaxStatsSecrets == 2

\* "a01", "a02", ...
StatsAuthor(i) == <<"a", DigitChars[(i \div 10) + 1], DigitChars[(i % 10) + 1]>>

StatsAuthorSets ==
    { {StatsAuthor(i) : i \in 1..k} : k \in {1, NumAuthors \div 2, NumAuthors} }
    \cup { {StatsAuthor(i) : i \in lo..NumAuthors} : lo \in {3, NumAuthors - 1, NumAuthors} }

\* the secret_data of secret i after one entry per author of As
StatsSecretData(i, As) ==
    LET file  == <<"f", DigitChars[i + 1]>>
        as    == SortSet(As)
        dates == [j \in 1..Len(as) |-> <<"2","0","2","1">>]
    IN  [secret_key |-> file \o <<"|">> \o <<"c">>, file |-> file, key |-> <<"c">>,
         type |-> <<"p","a","s","s","w","o","r","d">>,
         values |-> <<[value |-> <<"h","u","n","t","e","r","2">>, occurrences |-> Len(as), authors |-> As,
                       dates |-> dates]>>,
         authors |-> As, dates |-> dates, change_count |-> Len(as)]

InitStats ==
    /\ op = "buildStats"
    /\ pc = "read"
    /\ anIndex \in UNION { {[i \in 1..m |-> StatsSecretData(i, f[i])] :
                              f \in [1..m -> StatsAuthorSets]} : m \in 1..MaxStatsSecrets }
    /\ anTotal = SumSeq([i \in 1..Len(anIndex) |-> anIndex[i].change_count])
    /\ anRead = <<>>
    /\ analysis = None
    /\ InitNonAnalyzer

NextStats == AnalyzeDone

SpecStats == InitStats /\ [][NextStats]_vars

(***************************************************************************)
(* Working-tree pass run twice: _clean_current_files called two times      *)
(* with the same secrets on the same repository.                           *)
(***************************************************************************)
MaxPassSecrets == 2

PassContents == {<<>>, <<"p","w","=","h","u","n","t","e","r","2">>, <<"R","E","M","O","V","E","D">>, <<"a","*","*","*">>}

PassSecrets == {<<"h","u","n","t","e","r","2">>, <<"h","u","n","t","e","r">>, <<"R","E","M","O","V","E","D">>, <<"*","*","*">>}

\* the secrets lists: lists of distinct secrets, and the list of one empty
\* string (run on an empty file)
PassSecretLists ==
    {<< <<>> >>} \cup
    UNION {{sl \in [1..n -> PassSecrets] : \A i, j \in 1..n : sl[i] = sl[j] => i = j} :
            n \in 0..MaxPassSecrets}

InitCleanPass ==
    /\ op = "cleanCurrentFiles"
    /\ pc = "pass1"
    /\ caseSensitive = FALSE
    /\ InitScannerVars
    /\ InitOtherVars
    /\ InitMaskVars
    /\ InitLoadVars
    /\ cl \in [secrets : PassSecretLists, file_paths : {{}, {".env"}},
               listing : {<<>>}, after : {<<>>}, modified : {<<>>}]
    /\ \E c \in PassContents :
          /\ cl.secrets = << <<>> >> => c = <<>>
          /\ repo = [files |-> [WorkTree0 EXCEPT ![".env"] = c], branches |-> {"main"},
                  temps |-> {}, rewritten |-> FALSE]
    /\ cmds = <<>>
    /\ probes = NoProbes

\* one call of _clean_current_files: cl.listing keeps the outcome of its
\* `git ls-files`, cl.after the files it left, cl.modified the count it
\* returned
CleanPass ==
    /\ op = "cleanCurrentFiles" /\ pc \in {"pass1", "pass2"}
    /\ UNCHANGED <<op, caseSensitive, otherVars, scanVars, maskVars, loadVars, probes>>
    /\ \E o \in ToolOutcomes :
         LET listed  == cl.file_paths = {}
             exc     == IF listed THEN Raises(o, FALSE) ELSE "none"
             allowed == IF ~listed THEN cl.file_paths
                        ELSE IF o = "ok" THEN DOMAIN repo.files
                        ELSE {}
             files   == CleanFiles(repo.files, allowed, cl.secrets)
             changed == {f \in DOMAIN files : files[f] # repo.files[f]}
             ran     == IF listed THEN <<Cmd("git ls-files", o)>> ELSE <<>>
             wrote   == IF changed = {} THEN <<>> ELSE <<Cmd("write-files", "ok")>>
         IN IF exc = "FileNotFoundError"
            THEN /\ pc' = "raised"
                 /\ cmds' = cmds \o ran
                 /\ UNCHANGED <<cl, repo>>
            ELSE /\ pc' = IF pc = "pass1" THEN "pass2" ELSE "done"
                 /\ cmds' = cmds \o ran \o wrote
                 /\ repo' = [repo EXCEPT !.files = files]
                 /\ cl' = [cl EXCEPT !.listing = Append(@, IF listed THEN o ELSE "ok"),
                                     !.after = Append(@, files),
                                     !.modified = Append(@, Cardinality(changed))]

NextCleanPass == CleanPass

\* _clean_current_files, twice
SpecCleanPass == InitCleanPass /\ [][NextCleanPass]_vars

(***************************************************************************)
(* Extraction run: extract_key_value applied to the groups of one line,    *)
(* should_ignore_value applied to one value.                               *)
(***************************************************************************)
IgnoreInputs ==
    {<<"N","/","A">>, <<"n","/","a">>, <<"x","x","x">>, <<"X","X","X">>, <<"a","X","X","X","b">>, <<"h","u","n","t","e","r","2">>, <<"H","u","n","t","e","r","2">>, <<"a","$","{","b">>}

InitExtract ==
    /\ op \in {"extractKeyValue", "shouldIgnoreValue"}
    /\ pc = "run"
    /\ caseSensitive \in BOOLEAN
    /\ InitScannerVars
    /\ InitMaskVars
    /\ InitLoadVars
    /\ InitCleanVars
    /\ anIndex = <<>>
    /\ anTotal = 0
    /\ anRead = <<>>
    /\ analysis = None
    /\ exIn \in (IF op = "extractKeyValue" THEN ExtractInputs ELSE IgnoreInputs)
    /\ exOut = None

\* Scanner.extract_key_value on one line
ExtractRun ==
    /\ op = "extractKeyValue"
    /\ pc = "run"
    /\ exOut' = ExtractKeyValue(exIn, caseSensitive)
    /\ pc' = "done"
    /\ UNCHANGED <<op, caseSensitive, anVars, exIn, scanVars, maskVars, loadVars, cleanVars>>

\* Config.should_ignore_value on one value
IgnoreRun ==
    /\ op = "shouldIgnoreValue"
    /\ pc = "run"
    /\ exOut' = [ignore |-> ShouldIgnoreValue(exIn, caseSensitive)]
    /\ pc' = "done"
    /\ UNCHANGED <<op, caseSensitive, anVars, exIn, scanVars, maskVars, loadVars, cleanVars>>

NextExtract == ExtractRun \/ IgnoreRun

SpecExtract == InitExtract /\ [][NextExtract]_vars

(***************************************************************************)
(* Merge run: a sequence of events merged into the shared index by the     *)
(* critical section of _search_keyword.                                    *)
(***************************************************************************)
MaxMerges == 4

\* commit headers of the driver's output; the last has an empty date field
MergeHeaders ==
    {<<"C","O","M","M","I","T","_","S","T","A","R","T","|","c","1","|","a","n","n","|","2","0","2","1">>,
     <<"C","O","M","M","I","T","_","S","T","A","R","T","|","c","2","|","b","o","b","|","2","0","2","2">>,
     <<"C","O","M","M","I","T","_","S","T","A","R","T","|","c","3","|","c","a","t","|">>}

\* the current_* fields a task holds after reading the header
HeaderFields(text) ==
    ParseLine(NewTask, K_password, [text |-> text, groups |-> <<NoMatch, NoMatch>>], FALSE).task

\* the events of one (file, key) handed to the merge: after one of the
\* headers, or before any header (current_commit, current_date are None)
MergeEvents ==
    {[file |-> <<".","e","n","v">>, key |-> K_password, value |-> <<"h","u","n","t","e","r","2">>,
      commit |-> t.commit, author |-> t.author, date |-> t.date] :
        t \in {HeaderFields(h) : h \in MergeHeaders} \cup {NewTask}}

InitMerge ==
    /\ op = "merge"
    /\ pc = "run"
    /\ caseSensitive = FALSE
    /\ InitScannerVars
    /\ InitOtherVars
    /\ InitMaskVars
    /\ InitLoadVars
    /\ InitCleanVars

\* one pass through the `with lock:` block; a TypeError ends the task that
\* merged, the other tasks go on merging
MergeStep ==
    /\ op = "merge"
    /\ Len(log) < MaxMerges
    /\ \E e \in MergeEvents :
          /\ index' = MergeEvent(index, e).index
          /\ log' = Append(log, e @@ [src |-> "history"])
    /\ UNCHANGED <<op, pc, caseSensitive, task, histResult, result, seen, seenOuter,
                   tmpf, outf, nonScanVars>>

NextMerge == MergeStep

SpecMerge == InitMerge /\ [][NextMerge]_vars

(***************************************************************************)
(* Scan on fixed streams: each keyword task is given the events its driver *)
(* output yields, and the tasks merge them in any interleaving.            *)
(***************************************************************************)
MaxStream == 2

\* the events the task of keyword kw gets from the content lines of .env
\* under the two dated commit headers
StreamEvents(kw) ==
    {r.event : r \in {p \in {ParseLine([HeaderFields(h) EXCEPT !.file = <<".","e","n","v">>],
                                       kw, ln, FALSE) :
                                 h \in {x \in MergeHeaders : HeaderFields(x).date # <<>>},
                                 ln \in ContentLines} : p.hit}}

\* a driver prints a commit's line once: streams without repetition
StreamsOf(kw) ==
    UNION {{st \in [1..n -> StreamEvents(kw)] : \A i, j \in 1..n : st[i] = st[j] => i = j} :
             n \in 0..MaxStream}

InitInterleave ==
    /\ op = "scanStreams"
    /\ pc = "history"
    /\ caseSensitive = FALSE
    /\ task \in [TaskIds -> [st : {"running"}, todo : UNION {StreamsOf(Keywords[k]) : k \in TaskIds}]]
    /\ \A k \in TaskIds : task[k].todo \in StreamsOf(Keywords[k])
    /\ index = EmptyIndex
    /\ histResult = None
    /\ result = None
    /\ seen = {}
    /\ seenOuter = {}
    /\ tmpf = <<>>
    /\ outf = <<>>
    /\ log = <<>>
    /\ InitOtherVars
    /\ InitMaskVars
    /\ InitLoadVars
    /\ InitCleanVars

\* the task of keyword k merges its next event under the lock
StreamMerge(k) ==
    /\ op = "scanStreams"
    /\ task[k].st = "running"
    /\ task[k].todo # <<>>
    /\ LET e == Head(task[k].todo)
           m == MergeEvent(index, e)
       IN  /\ index' = m.index
           /\ log' = Append(log, e @@ [src |-> "history", by |-> k])
           /\ task' = [task EXCEPT ![k] = IF m.raised THEN [st |-> "failed", todo |-> <<>>]
                                          ELSE [st |-> "running", todo |-> Tail(task[k].todo)]]
    /\ UNCHANGED <<op, pc, caseSensitive, histResult, result, seen, seenOuter, tmpf, outf,
                   nonScanVars>>

\* the driver's output is exhausted
StreamEnd(k) ==
    /\ op = "scanStreams"
    /\ task[k].st = "running"
    /\ task[k].todo = <<>>
    /\ task' = [task EXCEPT ![k].st = "done"]
    /\ UNCHANGED <<op, pc, caseSensitive, index, histResult, result, seen, seenOuter,
                   tmpf, outf, log, nonScanVars>>

\* every task has ended: scan builds its result
StreamsDone ==
    /\ op = "scanStreams"
    /\ pc = "history"
    /\ AllTasksEnded(task)
    /\ result' = BuildResult(index)
    /\ pc' = "done"
    /\ UNCHANGED <<op, caseSensitive, task, index, histResult, seen, seenOuter, tmpf, outf,
                   log, nonScanVars>>

NextInterleave ==
    \/ \E k \in TaskIds : StreamMerge(k)
    \/ \E k \in TaskIds : StreamEnd(k)
    \/ StreamsDone

SpecInterleave == InitInterleave /\ [][NextInterleave]_vars

(***************************************************************************)
(* Dedup run: the events of one keyword's driver output go through the     *)
(* dedup and write of _stream_keyword.                                     *)
(***************************************************************************)
MaxDedup == 3

\* the events the task of keyword password gets from PipeLines under the
\* diff headers PipeDiffLines and the dated commit headers
DedupEvents ==
    {r.event : r \in {p \in {ParseLine([HeaderFields(h) EXCEPT !.file = DiffFile(d)],
                                       K_password, ln, FALSE) :
                                 h \in {x \in MergeHeaders : HeaderFields(x).date # <<>>},
                                 d \in PipeDiffLines,
                                 ln \in PipeLines} : p.hit}}

InitDedup ==
    /\ op = "streamKeyword"
    /\ pc = "run"
    /\ caseSensitive = FALSE
    /\ InitScannerVars
    /\ InitOtherVars
    /\ InitMaskVars
    /\ InitLoadVars
    /\ InitCleanVars

\* one event reaches `dedup_key = f"{current_file}|{key}|{value}"`
DedupStep ==
    /\ op = "streamKeyword"
    /\ Len(log) < MaxDedup
    /\ \E e \in DedupEvents :
          /\ seen' = StreamDedupWrite(seen, outf, e).seen
          /\ outf' = StreamDedupWrite(seen, outf, e).file
          /\ log' = Append(log, e @@ [src |-> "history"])
    /\ UNCHANGED <<op, pc, caseSensitive, task, index, histResult, result, seenOuter,
                   tmpf, nonScanVars>>

NextDedup == DedupStep

SpecDedup == InitDedup /\ [][NextDedup]_vars

(***************************************************************************)
(* Stream, then load: the JSONL file a streaming scan of the working tree  *)
(* has written is read by load_secrets_from_jsonl.                         *)
(***************************************************************************)
StreamLoadOps == {"scanCurrentStream", "scanBothStream"}

InitStreamLoad == InitScannerOps(StreamLoadOps)

\* load_secrets_from_jsonl on the output file: json.loads gives back the
\* members StreamEntry.to_dict wrote
LoadStreamOutput ==
    /\ op \in StreamLoadOps
    /\ pc = "done"
    /\ loadIn' = [lines |-> outf]
    /\ LET items == LoadedItems([lines |-> outf])
       IN  \E q \in SecretOrders(items, FALSE) :
              loaded' = [secrets |-> q, file_paths |-> FilePaths(items),
                         file_map |-> FileMap(items),
                         source |-> SourceStr(SourceSet(items))]
    /\ pc' = "loaded"
    /\ UNCHANGED <<op, caseSensitive, otherVars, scanVars, maskVars, cleanVars>>

NextStreamLoad == NextScanner \/ LoadStreamOutput

SpecStreamLoad == InitStreamLoad /\ [][NextStreamLoad]_vars

(***************************************************************************)
(* Properties.                                                             *)
(***************************************************************************)
Triple(r) == <<r.file, r.key, r.value>>

\* the position in the processing order of the first event with r's triple
FirstOccurrence(r) ==
    CHOOSE i \in 1..Len(log) :
        /\ Triple(log[i]) = Triple(r)
        /\ \A j \in 1..(i - 1) : Triple(log[j]) # Triple(r)

\* C1: in the JSONL file written by scan_stream, scan_current_stream or
\* scan_both_stream no two lines share the same (file, key, value), and each
\* line carries the commit, author and date of the first event, in processing
\* order, that had its triple.
C1_StreamDedup ==
    op \in StreamOps =>
        /\ \A i, j \in 1..Len(outf) : Triple(outf[i]) = Triple(outf[j]) => i = j
        /\ \A i \in 1..Len(outf) :
              /\ \E j \in 1..Len(log) : Triple(log[j]) = Triple(outf[i])
              /\ outf[i].commit = log[FirstOccurrence(outf[i])].commit
              /\ outf[i].author = log[FirstOccurrence(outf[i])].author
              /\ outf[i].date = log[FirstOccurrence(outf[i])].date

\* a finished streaming run in which the same triple came up twice, from two
\* different commits, and was written once
C1_Witness ==
    /\ op \in StreamOps
    /\ pc = "done"
    /\ Len(log) = 2
    /\ Triple(log[1]) = Triple(log[2])
    /\ log[1].commit # log[2].commit
    /\ Len(outf) = 1

\* every string a pattern can capture on a line of the input
GroupValues ==
    UNION { UNION { {ln.groups[i][j] : j \in 1..Len(ln.groups[i])} :
                    i \in {h \in 1..Len(ln.groups) : ln.groups[h] # NoMatch} } :
            ln \in DriverLines }

\* should_ignore_value on every such string, computed once
IgnoreTable ==
    [v \in GroupValues, cs \in BOOLEAN |-> ShouldIgnoreValue(v, cs)]

Kept(v) == v \in GroupValues /\ ~IgnoreTable[v, caseSensitive]

ResultKept(res) ==
    \A i \in 1..Len(res.secrets) :
        \A j \in 1..Len(res.secrets[i].history) : Kept(res.secrets[i].history[j].value)

\* C2: a value for which should_ignore_value is true is the value of no
\* emitted record: of no entry of the index, of no secret of a ScanResult of
\* scan, scan_current or scan_both, of no line of a JSONL file.
C2_IgnoredNeverEmitted ==
    op \in ScannerOps =>
        /\ \A fk \in DOMAIN index : Kept(index[fk].value)
        /\ \A i \in 1..Len(outf) : Kept(outf[i].value)
        /\ \A i \in 1..Len(tmpf) : Kept(tmpf[i].value)
        /\ (op \in ScanOps /\ pc = "done") => ResultKept(result)
        /\ (op = "scanBoth" /\ pc \in {"walk", "done"}) => ResultKept(histResult)

\* a line whose first candidate value is ignored and whose second is not: the
\* scan has emitted the second
C2_Witness ==
    /\ op = "scan"
    /\ pc = "done"
    /\ \E i \in 1..Len(log) :
          /\ log[i].value = <<"h","u","n","t","e","r","2">>
          /\ log[i].key = <<"a","p","i","_","k","e","y">>
    /\ \E i \in 1..Len(result.secrets) :
          /\ result.secrets[i].key = <<"a","p","i","_","k","e","y">>
          /\ result.secrets[i].history[1].value = <<"h","u","n","t","e","r","2">>

\* C3: when the history events of one (file, key) carry two different values
\* from two commits, scan emits one secret for that (file, key) with one
\* history entry per value and change_count 2.
C3_MultiValueHistory ==
    ( /\ op = "scan"
      /\ pc = "done"
      /\ Len(log) = 2
      /\ log[1].file = log[2].file
      /\ log[1].key = log[2].key
      /\ log[1].value # log[2].value
      /\ log[1].commit # log[2].commit
      /\ log[1].commit # None /\ log[2].commit # None )
    => /\ Len(result.secrets) = 1
       /\ result.secrets[1].file = log[1].file
       /\ result.secrets[1].key = log[1].key
       /\ result.secrets[1].change_count = 2
       /\ Len(result.secrets[1].history) = 2
       /\ {result.secrets[1].history[j].value : j \in 1..2} = {log[1].value, log[2].value}

\* the commit member makes an item a history item
IsHistoryItem(item) == "commit" \in DOMAIN item /\ item.commit \notin {<<>>, None}

\* C9: the source returned by load_secrets_from_json / load_secrets_from_jsonl
\* is "both" when some item has a non-empty commit and some item has an empty
\* or missing one, "history" when every item has a non-empty commit and there
\* is one, "current" otherwise.
C9_SourceInference ==
    (op \in {"loadJSONL", "loadJSON"} /\ pc = "done") =>
        LET items == LoadedItems(loadIn)
            hist  == \E i \in 1..Len(items) : IsHistoryItem(items[i])
            cur   == \E i \in 1..Len(items) : ~IsHistoryItem(items[i])
        IN  loaded.source = IF hist /\ cur THEN "both"
                            ELSE IF hist THEN "history"
                            ELSE "current"

\* a load of one item with a commit and one without
C9_Witness ==
    /\ op \in {"loadJSONL", "loadJSON"}
    /\ pc = "done"
    /\ Len(LoadedItems(loadIn)) = 2
    /\ IsHistoryItem(LoadedItems(loadIn)[1])
    /\ ~IsHistoryItem(LoadedItems(loadIn)[2])
    /\ loaded.source = "both"

\* "****" when |v| <= 4, else v[0..1] + '*' x min(|v| - 4, 16) + v[-2..]
MaskedValueSpec(v) ==
    IF Len(v) <= 4 THEN <<"*","*","*","*">>
    ELSE SubSeq(v, 1, 2)
         \o [i \in 1..(IF Len(v) - 4 < 16 THEN Len(v) - 4 ELSE 16) |-> "*"]
         \o SubSeq(v, Len(v) - 1, Len(v))

\* C10: every maskedValue produced, by the Scanner, the Analyzer or the
\* Cleaner, is "****" for a value of at most 4 characters and otherwise the
\* first two characters, min(|v| - 4, 16) asterisks and the last two.
C10_Masking ==
    op = "mask" => \A p \in produced : p.maskedValue = MaskedValueSpec(mv)

CmdNames == {cmds[i].cmd : i \in 1..Len(cmds)}

Mutations == {"write-files", "write-temp", "git filter-repo", "bfg",
              "java -jar bfg.jar", "git filter-branch"}

GCCommands == {"git reflog expire", "git gc"}

Repo0 == [files |-> WorkTree0, branches |-> {"main"}, temps |-> {}, rewritten |-> FALSE]

\* C4: a clean with dry_run set and a non-empty secrets list returns
\* success with preview_secrets the masked form of the first 10 secrets at
\* most and no backup branch, and starts nothing on the way: no branch, no
\* file write, no history rewrite, no GC; the repository is as it was.
C4_DryRun ==
    (op = "clean" /\ cl.opts.dry_run /\ cl.secrets # <<>>) =>
        /\ pc \in {"start", "done"}
        /\ cmds = <<>>
        /\ repo = Repo0
        /\ cl.result.backup_branch = ""
        /\ pc = "done" =>
              /\ cl.result.success
              /\ cl.result.dry_run
              /\ Len(cl.result.preview_secrets) =
                    IF Len(cl.secrets) < 10 THEN Len(cl.secrets) ELSE 10
              /\ \A i \in 1..Len(cl.result.preview_secrets) :
                    cl.result.preview_secrets[i] = MaskedValueSpec(cl.secrets[i])

\* a finished dry run over eleven secrets, the first of them capped by the
\* mask, whose preview holds ten
C4_Witness ==
    /\ op = "clean"
    /\ pc = "done"
    /\ cl.opts.dry_run
    /\ Len(cl.secrets) = 11
    /\ Len(cl.secrets[1]) > 20
    /\ Len(cl.result.preview_secrets) = 10
    /\ cl.result.success

BackupFailed ==
    \E i \in 1..Len(cmds) : cmds[i].cmd = "git branch" /\ cmds[i].outcome # "ok"

\* C5: unless no_backup is set, the backup branch is created before any
\* working-tree write or history rewrite; if `git branch` fails (nonzero
\* exit, timeout or spawn failure) clean returns a result with success false
\* and no write, rewrite or GC is started.
C5_BackupBeforeMutation ==
    op = "clean" =>
        /\ \A i \in 1..Len(cmds) :
              (cmds[i].cmd \in Mutations /\ ~cl.opts.no_backup) =>
                  \E j \in 1..(i - 1) : cmds[j] = Cmd("git branch", "ok")
        /\ BackupFailed =>
              /\ pc = "done"
              /\ ~cl.result.success
              /\ CmdNames = {"git branch"}
              /\ repo = Repo0

\* the backend that ran last did not end with exit status 0
BackendFailed ==
    \E i \in 1..Len(cmds) :
        \/ cmds[i].cmd \in {"git filter-repo", "git filter-branch", "java -jar bfg.jar"}
           /\ cmds[i].outcome # "ok"
        \/ cmds[i].cmd = "bfg" /\ cmds[i].outcome \in {"nonzero", "timeout"}

\* C6: if the selected backend fails, clean returns success false with a
\* message about the failure, the temp file written for the backend is gone
\* and neither reflog expire nor gc is run.
C6_HistoryRewriteFailure ==
    (op = "clean" /\ BackendFailed) =>
        /\ pc = "done"
        /\ ~cl.result.success
        /\ cl.result.message = "Failed to clean history"
        /\ repo.temps = {}
        /\ CmdNames \cap GCCommands = {}

GCFailed ==
    \E i \in 1..Len(cmds) :
        cmds[i].cmd \in GCCommands /\ cmds[i].outcome \in {"nonzero", "timeout"}

\* C7: if `git reflog expire` or `git gc` ends with a nonzero exit or a
\* timeout, clean returns success false.
C7_GCFailure ==
    (op = "clean" /\ GCFailed) => (pc = "done" /\ ~cl.result.success)

\* a probe succeeds when the program ran and exited with status 0
ProbeOk(o) == o = "ok"

\* C8: with tool "auto", clean uses filter-repo when its probe succeeds,
\* else bfg when the probe of bfg or of its jar succeeds, else filter-branch;
\* a backend whose probe fails (not installed, nonzero exit, timeout) is not
\* selected.
C8_ToolSelection ==
    (op = "clean" /\ cl.opts.tool = "auto" /\ cl.secrets # <<>> /\ pc # "start") =>
        cl.tool = IF ProbeOk(probes.fr) THEN "filter-repo"
                  ELSE IF ProbeOk(probes.bfg) \/ ProbeOk(probes.java) THEN "bfg"
                  ELSE "filter-branch"

\* the (file, key, value) an entry stands for
EntryTriple(e) == <<EntryGet(e, "file"), EntryGet(e, "key"), EntryGet(e, "value")>>

EntryPair(e) == <<EntryGet(e, "file"), EntryGet(e, "key")>>

\* C11: for every secret of the Analysis built by analyze_json or
\* analyze_jsonl, change_count = total_occurrences = the sum of the
\* occurrences of its history entries, and the occurrences of each history
\* entry is the number of input entries with that (file, key, value).
C11_AnalyzerSums ==
    (op \in AnalyzerOps /\ pc = "done") =>
        \A i \in 1..Len(analysis.secrets) :
            LET sc == analysis.secrets[i]
            IN  /\ sc.change_count = sc.total_occurrences
                /\ sc.total_occurrences =
                      SumSeq([j \in 1..Len(sc.history) |-> sc.history[j].occurrences])
                /\ \A j \in 1..Len(sc.history) :
                      sc.history[j].occurrences =
                         Cardinality({k \in 1..Len(anRead) :
                             EntryTriple(anRead[k]) = <<sc.file, sc.key, sc.history[j].value>>})

\* C12: for an input of n entries, stats.total_entries = n, and
\* stats.unique_secrets is the number of distinct (file, key) among the
\* entries, which is the number of secrets of the Analysis.
C12_RoundTrip ==
    (op \in AnalyzerOps /\ pc = "done") =>
        /\ analysis.stats.total_entries = Len(anRead)
        /\ analysis.stats.unique_secrets =
              Cardinality({EntryPair(anRead[k]) : k \in 1..Len(anRead)})
        /\ analysis.stats.unique_secrets = Len(analysis.secrets)

\* how many secrets of the index author a contributed to
SecretsOfAuthor(a) == Cardinality({k \in 1..Len(anIndex) : a \in anIndex[k].authors})

IndexAuthors == UNION {anIndex[k].authors : k \in 1..Len(anIndex)}

\* C13: stats.top_authors has at most 10 entries, one per author; each count
\* is the number of secrets the author contributed to and is positive; the
\* counts are in non-increasing order; no author left out has a count
\* greater than that of an author in the list.
C13_TopAuthors ==
    (op = "buildStats" /\ pc = "done") =>
        LET top == analysis.stats.top_authors
        IN  /\ Len(top) <= 10
            /\ Len(top) = IF Cardinality(IndexAuthors) < 10
                          THEN Cardinality(IndexAuthors) ELSE 10
            /\ \A i, j \in 1..Len(top) : top[i].name = top[j].name => i = j
            /\ \A i \in 1..Len(top) :
                  /\ top[i].name \in IndexAuthors
                  /\ top[i].count = SecretsOfAuthor(top[i].name)
                  /\ top[i].count > 0
            /\ \A i \in 1..(Len(top) - 1) : top[i].count >= top[i + 1].count
            /\ \A a \in IndexAuthors :
                  (\A i \in 1..Len(top) : top[i].name # a) =>
                      \A i \in 1..Len(top) : SecretsOfAuthor(a) <= top[i].count

\* twelve authors with different counts: ten are listed, two are left out
C13_Witness ==
    /\ op = "buildStats"
    /\ pc = "done"
    /\ Cardinality(IndexAuthors) = 12
    /\ Len(analysis.stats.top_authors) = 10
    /\ analysis.stats.top_authors[1].count = 2
    /\ analysis.stats.top_authors[10].count = 1

PairOf(sc) == <<sc.file, sc.key>>

PairsOf(res) == {PairOf(res.secrets[i]) : i \in 1..Len(res.secrets)}

LogPairs(src) == {<<log[i].file, log[i].key>> : i \in {j \in 1..Len(log) : log[j].src = src}}

C16_CleanIdempotent ==
    (op = "cleanCurrentFiles" /\ pc = "done" /\ cl.listing = <<"ok", "ok">>) =>
        /\ cl.after[2] = cl.after[1]
        /\ cl.modified[2] = 0

\* the history events of the log that the returned result holds: the secret
\* of the event's (file, key) lists its commit and its author
EventMerged(e, res) ==
    \E i \in 1..Len(res.secrets) :
       /\ PairOf(res.secrets[i]) = <<e.file, e.key>>
       /\ InSeq(e.commit, res.secrets[i].history[1].commits)
       /\ InSeq(e.author, res.secrets[i].authors)

\* C17: a keyword task that fails (the driver cannot be spawned, or merging
\* an event raises) ends alone: the step leaves every other task as it was,
\* the scan returns only when every task has ended, and the ScanResult holds
\* every event a task has merged, those of a failed task included.  (A
\* driver that exits nonzero ends its task like any other.)
C17_FailureIsolation ==
    /\ [][\A k \in TaskIds :
            (task[k].st # "failed" /\ task'[k].st = "failed") =>
                \A j \in TaskIds \ {k} : task'[j] = task[j]]_vars
    /\ []((op \in {"scan", "scanBoth"} /\ pc # "history") =>
             \A k \in TaskIds : task[k].st \in {"done", "failed"})
    /\ []((op \in {"scan", "scanBoth"} /\ pc = "done") =>
             \A i \in 1..Len(log) :
                log[i].src = "history" => EventMerged(log[i], result))

\* a scan that has returned although one task failed while merging its
\* event: another task has ended normally and the result holds the commit of
\* the failed task's event
C17_Witness ==
    /\ op = "scan"
    /\ pc = "done"
    /\ \E k, j \in TaskIds : task[k].st = "failed" /\ task[j].st = "done"
    /\ Len(log) = 2
    /\ log[1].date # None
    /\ log[2].date = None
    /\ Len(result.secrets) = 1
    /\ EventMerged(log[1], result)
    /\ EventMerged(log[2], result)

\* the positions of a mask that hold an asterisk
Stars(m) == {i \in 1..Len(m) : m[i] = "*"}

\* every character of the mask m that is not an asterisk is one of the
\* first two or one of the last two characters of v, at its place
RevealsEndsOnly(m, v) ==
    /\ Cardinality((1..Len(m)) \ Stars(m)) <= 4
    /\ \A i \in (1..Len(m)) \ Stars(m) :
          \/ i <= 2 /\ i <= Len(v) /\ m[i] = v[i]
          \/ /\ i > Len(m) - 2
             /\ Len(v) - (Len(m) - i) >= 1
             /\ m[i] = v[Len(v) - (Len(m) - i)]

ScannerMasks == {p.maskedValue : p \in {q \in produced : q.by = "scanner"}}

\* C18 (as amended): the Scanner's mask of v reveals no more than the first
\* two and the last two characters of v; its length is at most max(|v|, 4);
\* it holds at least one asterisk when |v| > 4 and at least 4 asterisks when
\* |v| <= 4 or |v| >= 8.
C18_MaskBounds ==
    op = "mask" =>
        \A m \in ScannerMasks :
           /\ RevealsEndsOnly(m, mv)
           /\ Len(m) <= (IF Len(mv) > 4 THEN Len(mv) ELSE 4)
           /\ Len(mv) > 4 => Cardinality(Stars(m)) >= 1
           /\ (Len(mv) <= 4 \/ Len(mv) >= 8) => Cardinality(Stars(m)) >= 4

\* C18 as stated: the mask reveals no more than the first two and the last
\* two characters, is never longer than v, and holds at least 4 asterisks
\* whenever |v| > 4.
C18_MaskBoundsStated ==
    op = "mask" =>
        \A m \in ScannerMasks :
           /\ RevealsEndsOnly(m, mv)
           /\ Len(m) <= Len(mv)
           /\ Len(mv) > 4 => Cardinality(Stars(m)) >= 4

\* the Scanner has masked a value of 5 characters: one asterisk between the
\* two pairs of characters
C18_Witness ==
    /\ op = "mask"
    /\ Len(mv) = 5
    /\ \E m \in ScannerMasks : Cardinality(Stars(m)) = 1 /\ Len(m) = 5

\* the patterns, by index, whose match on the line gives a value that
\* should_ignore_value accepts
AcceptedPatterns(groups, cs) ==
    {i \in 1..Len(CompiledPatterns) :
        /\ groups[i] # NoMatch
        /\ ~ShouldIgnoreValue(groups[i][CompiledPatterns[i].value_group], cs)}

\* C19: extract_key_value returns the key (group 1) and the value (group
\* value_group) of the first pattern, in declared order, whose value is not
\* rejected by should_ignore_value, passing over the patterns that do not
\* match or whose value is rejected; it returns not-found when there is none.
C19_ExtractionOrder ==
    (op = "extractKeyValue" /\ pc = "done") =>
        LET acc == AcceptedPatterns(exIn, caseSensitive)
        IN  IF acc = {}
            THEN exOut = [found |-> FALSE, key |-> None, value |-> None]
            ELSE LET i == CHOOSE h \in acc : \A g \in acc : h <= g
                 IN  exOut = [found |-> TRUE, key |-> exIn[i][1],
                              value |-> exIn[i][CompiledPatterns[i].value_group]]

\* the first pattern matched a value that is rejected, the second an
\* accepted one: the pair of the second pattern is returned
C19_Witness ==
    /\ op = "extractKeyValue"
    /\ pc = "done"
    /\ exIn[1] # NoMatch
    /\ 1 \notin AcceptedPatterns(exIn, caseSensitive)
    /\ 2 \in AcceptedPatterns(exIn, caseSensitive)
    /\ exOut.found
    /\ exOut.key = exIn[2][1]
    /\ exOut.key # exIn[1][1]

\* the rules of should_ignore_value other than the ignored_values one
OtherRules(value) ==
    \/ Len(value) < MinSecretLength
    \/ Len(value) > MaxSecretLength
    \/ LooksLikeCode(value)
    \/ \E i \in 1..Len(UrlPrefixes) : StartsWith(Lower(value), UrlPrefixes[i])
    \/ \E i \in 1..Len(CommonKeywords) : Lower(value) = CommonKeywords[i]

\* C20: a value that no other rule rejects is rejected by
\* should_ignore_value iff, with case_sensitive off, its lowercase form
\* contains the lowercase form of some ignored_values entry, and with
\* case_sensitive on, the value contains some entry with exactly matching
\* case.
C20_IgnoredValuesCase ==
    (op = "shouldIgnoreValue" /\ pc = "done" /\ ~OtherRules(exIn)) =>
        exOut.ignore =
            IF caseSensitive
            THEN \E i \in 1..Len(IgnoredValues) : Contains(exIn, IgnoredValues[i])
            ELSE \E i \in 1..Len(IgnoredValues) :
                    Contains(Lower(exIn), Lower(IgnoredValues[i]))

\* C21: a content line read before any COMMIT_START header or before any
\* `diff --git` header is discarded: no index entry of a scan and no JSONL
\* line of a streaming scan has an empty file or lacks a commit.
C21_HeaderlessDiscarded ==
    op \in ScannerOps =>
        /\ \A fk \in DOMAIN index :
              ~Falsy(fk[1]) /\ ~InSeq(None, index[fk].commits)
        /\ \A i \in 1..Len(outf) : ~Falsy(outf[i].file) /\ outf[i].commit # None
        /\ \A i \in 1..Len(tmpf) : ~Falsy(tmpf[i].file) /\ tmpf[i].commit # None

\* the history events of the log for one (file, key)
EventsOf(fk) == {i \in 1..Len(log) : log[i].src = "history" /\ <<log[i].file, log[i].key>> = fk}

NoDuplicate(xs) == \A i, j \in 1..Len(xs) : xs[i] = xs[j] => i = j

\* C22: when every keyword task of scan has finished, whatever the order of
\* their merges, each (file, key) with an accepted event has a record; its
\* commit list has no duplicate and holds exactly the commits of the events
\* of that (file, key); its author list has no duplicate and holds their
\* authors; change_count is the number of distinct commits.
C22_NoLostOrDuplicatedMerge ==
    (op = "scan" /\ pc = "done") =>
        /\ \A i \in 1..Len(log) : <<log[i].file, log[i].key>> \in PairsOf(result)
        /\ \A i \in 1..Len(result.secrets) :
              LET sc == result.secrets[i]
                  cm == sc.history[1].commits
                  ev == EventsOf(PairOf(sc))
              IN  /\ NoDuplicate(cm)
                  /\ {cm[j] : j \in 1..Len(cm)} = {log[j].commit : j \in ev}
                  /\ NoDuplicate(sc.authors)
                  /\ {sc.authors[j] : j \in 1..Len(sc.authors)} = {log[j].author : j \in ev}
                  /\ sc.change_count = Cardinality({log[j].commit : j \in ev})

\* two tasks have merged an event of the same (file, key) and the same
\* commit: the record lists the commit once
C22_Witness ==
    /\ op = "scan"
    /\ pc = "done"
    /\ Len(log) = 2
    /\ log[1].commit # None
    /\ log[1].commit = log[2].commit
    /\ <<log[1].file, log[1].key>> = <<log[2].file, log[2].key>>
    /\ \A k \in TaskIds : task[k].st = "done"
    /\ Len(result.secrets) = 1
    /\ result.secrets[1].change_count = 1

\* the non-empty dates of the events merged into the record of fk
DatesOf(fk) == {log[i].date : i \in EventsOf(fk)} \ {None, <<>>}

\* C23: after any sequence of merges into a (file, key) record, first_seen
\* is the least and last_seen the greatest of the non-empty dates of the
\* events merged into it (so first_seen <= last_seen): an empty date neither
\* lowers last_seen nor replaces a non-empty first_seen.
C23_TemporalBounds ==
    op = "merge" =>
        \A fk \in DOMAIN index :
           DatesOf(fk) # {} =>
              /\ index[fk].first_seen \in DatesOf(fk)
              /\ \A d \in DatesOf(fk) : ~StrLess(d, index[fk].first_seen)
              /\ index[fk].last_seen \in DatesOf(fk)
              /\ \A d \in DatesOf(fk) : ~StrLess(index[fk].last_seen, d)

\* C24: scan builds its result only when every keyword task has ended,
\* normally or by failure; the result is built from the index as the tasks
\* left it, and no step changes the index once the result is built.
C24_CompletionBarrier ==
    /\ []((op = "scan" /\ pc = "done") =>
             /\ AllTasksEnded(task)
             /\ result = BuildResult(index))
    /\ [][(op = "scan" /\ pc = "done") => index' = index]_vars

\* a scan has returned its result after one task failed to start its driver
\* and the other read its output to the end
C24_Witness ==
    /\ op = "scan"
    /\ pc = "done"
    /\ task[1].st = "failed"
    /\ task[2].st = "done"
    /\ Len(log) = 1
    /\ result.secrets_found = 1
    /\ result.total_values = 1

\* C25: a match of the working-tree walk is recorded with commit "HEAD",
\* author "" and date now: so is every JSONL entry scan_current_stream
\* writes, and so is the value record of every secret scan_current returns
\* (its commit list holds "HEAD", hence change_count is 1).
C25_WorkingTreeRecords ==
    /\ (op = "scanCurrentStream" /\ pc = "done") =>
          \A i \in 1..Len(outf) :
             /\ outf[i].commit = <<"H","E","A","D">>
             /\ outf[i].author = <<>>
             /\ outf[i].date \in NowDates
    /\ (op = "scanCurrent" /\ pc = "done") =>
          \A i \in 1..Len(result.secrets) :
             /\ result.secrets[i].history[1].commits = << <<"H","E","A","D">> >>
             /\ result.secrets[i].change_count = 1
             /\ result.secrets[i].history[1].first_seen \in NowDates

\* the events task k has merged, in the order of its stream
RECURSIVE MergedBy(_, _)
MergedBy(k, i) ==
    IF i > Len(log) THEN <<>>
    ELSE (IF log[i].by = k THEN <<log[i]>> ELSE <<>>) \o MergedBy(k, i + 1)

\* the index after the events es are merged one after the other
RECURSIVE MergeAll(_, _)
MergeAll(idx, es) ==
    IF es = <<>> THEN idx ELSE MergeAll(MergeEvent(idx, Head(es)).index, Tail(es))

\* what the claim compares of a secret
SecretView(sc) ==
    [file |-> sc.file, key |-> sc.key, value |-> sc.history[1].value,
     masked_value |-> sc.history[1].masked_value,
     commits |-> {sc.history[1].commits[i] : i \in 1..Len(sc.history[1].commits)},
     authors |-> {sc.authors[i] : i \in 1..Len(sc.authors)},
     first_seen |-> sc.history[1].first_seen, last_seen |-> sc.history[1].last_seen]

ResultView(res) == [i \in 1..Len(res.secrets) |-> SecretView(res.secrets[i])]

\* C26: for fixed per-keyword event streams, the result of scan is the same
\* under every interleaving of the tasks' merges: the secrets, their order,
\* and each one's value, masked value, commit set, author set, first_seen
\* and last_seen are those of the run where the first task merges its whole
\* stream before the second.
C26_InterleavingIndependence ==
    (op = "scanStreams" /\ pc = "done" /\ \A k \in TaskIds : task[k].st = "done") =>
        ResultView(result) =
            ResultView(BuildResult(MergeAll(EmptyIndex, MergedBy(1, 1) \o MergedBy(2, 1))))

\* C27: the dedup key tells different triples apart: every (file, key,
\* value) of an event that reached the dedup is the triple of a line
\* written, also when the file path or the value contains "|".
C27_DedupKeyInjective ==
    op = "streamKeyword" =>
        \A i \in 1..Len(log) : \E j \in 1..Len(outf) : Triple(outf[j]) = Triple(log[i])

\* a line written for a working-tree event: commit "HEAD" and empty author
IsWorkingTreeLine(l) == l.commit = <<"H","E","A","D">> /\ l.author = <<>>

\* C28: load_secrets_from_jsonl on the file scan_current_stream wrote gives
\* source "current"; on a file scan_both_stream wrote that holds history
\* events and working-tree events it gives source "both".
C28_SourceAgreement ==
    (op \in StreamLoadOps /\ pc = "loaded") =>
        /\ op = "scanCurrentStream" => loaded.source = "current"
        /\ ( /\ op = "scanBothStream"
             /\ \E i \in 1..Len(outf) : IsWorkingTreeLine(outf[i])
             /\ \E i \in 1..Len(outf) : ~IsWorkingTreeLine(outf[i]) )
           => loaded.source = "both"

\* the files a working-tree pass goes through
PassFiles == IF cl.file_paths = {} THEN DOMAIN repo.files ELSE cl.file_paths

\* C29: once the working-tree pass has processed a file, the file contains
\* no occurrence of any (non-empty) secret of the list, whatever the order
\* of the list and whether or not a secret is a substring of another.
C29_PurgeComplete ==
    (op = "cleanCurrentFiles" /\ pc \in {"pass2", "done"} /\ cl.listing[1] = "ok") =>
        \A f \in PassFiles : \A i \in 1..Len(cl.secrets) :
           cl.secrets[i] # <<>> => ~Contains(cl.after[1][f], cl.secrets[i])

\* C30: whenever clean returns success false (backup failure, history
\* rewrite failure or GC failure), the working-tree files hold what they
\* held before the call, for every source setting, `both` included.
C30_NoPartialMutation ==
    (op = "clean" /\ pc = "done" /\ ~cl.result.success) =>
        repo.files = WorkTree0

====
